---- MODULE Spec2Model ----
(***************************************************************************)
(* Rules engine of the falling-block game: collision, rotation, lock and   *)
(* line clear.  Grids and shapes are sequences of rows (a row is a         *)
(* sequence of cells), so that their dimensions are part of the state.     *)
(* The source indexes rows and columns from 0; a sequence is indexed from  *)
(* 1, so the source's grid[y][x] is written grid[y + 1][x + 1].            *)
(***************************************************************************)
EXTENDS Integers, Sequences, FiniteSets, TLC

VARIABLES grid, call, steps, shape, orig, nCW, nCCW, nTet,
          scene, sm, counts, heap, pieceBag, dealt, nextHold

libVars == <<grid, call, steps>>
rotVars == <<shape, orig, nCW, nCCW, nTet>>
\* the host scene; a ScoreManager and the counts passed to it; the arrays
\* a caller of the rotation functions holds
objVars == <<scene, sm, counts, heap>>
\* a PieceBag and the pieces it has dealt; a NextHoldManager
bagVars == <<pieceBag, dealt, nextHold>>
vars == <<grid, call, steps, shape, orig, nCW, nCCW, nTet,
          scene, sm, counts, heap, pieceBag, dealt, nextHold>>

\* ------------------------------------------------------------------------
\* Program constants

GRID_WIDTH == 10

GRID_HEIGHT == 20

\* ------------------------------------------------------------------------
\* Bounds of the model

\* how many board-mutating calls one behaviour makes
MaxSteps == 2

\* how far outside the board the offsets of a call range
Margin == 2

\* how many rotations one behaviour applies to a shape
MaxRot == 4

\* side length of the largest generic square shape
MaxN == 3

\* how many cells of a generic square shape are occupied at most
MaxCells == 2

\* how many of the lowest rows of an initial board hold blocks
MaxFill == 3

\* ------------------------------------------------------------------------
\* Arrays

\* new Array(GRID_WIDTH).fill(0)
EmptyRow == [c \in 1..GRID_WIDTH |-> 0]

\* Array.prototype.every((cell) => cell !== 0)
EveryNonZero(row) == \A c \in 1..Len(row) : row[c] # 0

\* grid.splice(row, 1): the array without the element at (0-based) index row
Splice1(g, row) == SubSeq(g, 1, row) \o SubSeq(g, row + 2, Len(g))

\* grid.unshift(e)
Unshift(g, e) == <<e>> \o g

\* ------------------------------------------------------------------------
\* collision.ts

RECURSIVE isPositionValidFrom(_, _, _, _, _, _)
\* the two nested loops of isPositionValid, from cell (shapeY, shapeX) on
isPositionValidFrom(g, s, offsetX, offsetY, shapeY, shapeX) ==
  IF shapeY >= Len(s) THEN TRUE
  ELSE IF shapeX >= Len(s[shapeY + 1])
    THEN isPositionValidFrom(g, s, offsetX, offsetY, shapeY + 1, 0)
  ELSE
    LET cellValue == s[shapeY + 1][shapeX + 1]
        gridX == offsetX + shapeX
        gridY == offsetY + shapeY
    IN  IF cellValue = 0
          THEN isPositionValidFrom(g, s, offsetX, offsetY, shapeY, shapeX + 1)
        ELSE IF gridX < 0 \/ gridX >= GRID_WIDTH THEN FALSE
        ELSE IF gridY < 0 \/ gridY >= GRID_HEIGHT THEN FALSE
        ELSE IF g[gridY + 1][gridX + 1] # 0 THEN FALSE
        ELSE isPositionValidFrom(g, s, offsetX, offsetY, shapeY, shapeX + 1)

\* variant: a cell above the top row is let through unchecked
isPositionValidAboveTop(g, s, offsetX, offsetY) ==
  \A shapeY \in 0..(Len(s) - 1) : \A shapeX \in 0..(Len(s[shapeY + 1]) - 1) :
    LET gridX == offsetX + shapeX
        gridY == offsetY + shapeY
    IN  s[shapeY + 1][shapeX + 1] # 0 =>
          /\ gridX >= 0
          /\ gridX < GRID_WIDTH
          /\ gridY < GRID_HEIGHT
          /\ gridY >= 0 => g[gridY + 1][gridX + 1] = 0

isPositionValid(g, s, offsetX, offsetY) ==
  isPositionValidFrom(g, s, offsetX, offsetY, 0, 0)

RECURSIVE placeFrom(_, _, _, _, _, _)
\* the writing loops of placeTetromino, from cell (shapeY, shapeX) on
placeFrom(g, s, offsetX, offsetY, shapeY, shapeX) ==
  IF shapeY >= Len(s) THEN g
  ELSE IF shapeX >= Len(s[shapeY + 1])
    THEN placeFrom(g, s, offsetX, offsetY, shapeY + 1, 0)
  ELSE
    LET cellValue == s[shapeY + 1][shapeX + 1]
        gridX == offsetX + shapeX
        gridY == offsetY + shapeY
    IN  IF cellValue # 0
          THEN placeFrom([g EXCEPT ![gridY + 1][gridX + 1] = cellValue],
                         s, offsetX, offsetY, shapeY, shapeX + 1)
          ELSE placeFrom(g, s, offsetX, offsetY, shapeY, shapeX + 1)

\* variant: a placement that is not valid still writes the cells that are
\* on the board and empty
placeTetrominoWritesFreeCells(g, s, offsetX, offsetY) ==
  IF ~isPositionValid(g, s, offsetX, offsetY)
    THEN [grid |-> [r \in 1..Len(g) |-> [c \in 1..Len(g[r]) |->
                      LET shapeY == (r - 1) - offsetY
                          shapeX == (c - 1) - offsetX
                      IN  IF /\ g[r][c] = 0
                             /\ shapeY >= 0
                             /\ shapeY < Len(s)
                             /\ shapeX >= 0
                             /\ shapeX < Len(s[shapeY + 1])
                            THEN s[shapeY + 1][shapeX + 1]
                            ELSE g[r][c]]],
          ret |-> FALSE]
    ELSE [grid |-> placeFrom(g, s, offsetX, offsetY, 0, 0), ret |-> TRUE]

\* placeTetromino: the grid it leaves and the value it returns
placeTetromino(g, s, offsetX, offsetY) ==
  IF ~isPositionValid(g, s, offsetX, offsetY)
    THEN [grid |-> g, ret |-> FALSE]
    ELSE [grid |-> placeFrom(g, s, offsetX, offsetY, 0, 0), ret |-> TRUE]

RECURSIVE findCompletedRowsFrom(_, _, _)
findCompletedRowsFrom(g, row, completedRows) ==
  IF row >= GRID_HEIGHT THEN completedRows
  ELSE findCompletedRowsFrom(g, row + 1,
         IF EveryNonZero(g[row + 1]) THEN Append(completedRows, row)
                                     ELSE completedRows)

findCompletedRows(g) == findCompletedRowsFrom(g, 0, <<>>)

RECURSIVE InsertDesc(_, _)
\* v put into the descending sequence sorted, before the first smaller element
InsertDesc(sorted, v) ==
  IF sorted = <<>> THEN <<v>>
  ELSE IF v > Head(sorted) THEN <<v>> \o sorted
  ELSE <<Head(sorted)>> \o InsertDesc(Tail(sorted), v)

RECURSIVE SortDescFrom(_, _)
SortDescFrom(rest, sorted) ==
  IF rest = <<>> THEN sorted
  ELSE SortDescFrom(Tail(rest), InsertDesc(sorted, Head(rest)))

\* [...rowIndices].sort((a, b) => b - a)
SortDesc(rowIndices) == SortDescFrom(rowIndices, <<>>)

\* grid[row] = value: an assignment at index grid.length appends
SetRow(g, row, value) ==
  IF row < Len(g) THEN [g EXCEPT ![row + 1] = value] ELSE Append(g, value)

RECURSIVE shiftFrom(_, _)
\* for (row = rowIndex; row > 0; row--) grid[row] = [...grid[row - 1]];
\* the spread of a row that does not exist throws a TypeError
shiftFrom(g, row) ==
  IF row <= 0 THEN [grid |-> g, threw |-> FALSE]
  ELSE IF row - 1 >= Len(g) THEN [grid |-> g, threw |-> TRUE]
  ELSE shiftFrom(SetRow(g, row, g[row]), row - 1)

RECURSIVE removeRowsFrom(_, _)
removeRowsFrom(g, sortedIndices) ==
  IF sortedIndices = <<>> THEN [grid |-> g, threw |-> FALSE]
  ELSE LET sh == shiftFrom(g, Head(sortedIndices))
       IN  IF sh.threw THEN sh
           ELSE removeRowsFrom([sh.grid EXCEPT ![1] = EmptyRow],
                               Tail(sortedIndices))

\* removeRows: the grid it leaves, the value it returns, whether it threw
removeRows(g, rowIndices) ==
  LET r == removeRowsFrom(g, SortDesc(rowIndices))
  IN  [grid |-> r.grid, threw |-> r.threw, ret |-> Len(rowIndices)]

\* ------------------------------------------------------------------------
\* lockAndClear.ts

RECURSIVE mergeFrom(_, _, _, _, _, _)
\* step 1 of lockPiece, from cell (shapeY, shapeX) on
mergeFrom(g, s, offsetX, offsetY, shapeY, shapeX) ==
  IF shapeY >= Len(s) THEN g
  ELSE IF shapeX >= Len(s[shapeY + 1])
    THEN mergeFrom(g, s, offsetX, offsetY, shapeY + 1, 0)
  ELSE
    LET cellValue == s[shapeY + 1][shapeX + 1]
        gridX == offsetX + shapeX
        gridY == offsetY + shapeY
    IN  IF /\ cellValue # 0
           /\ gridY >= 0
           /\ gridY < GRID_HEIGHT
           /\ gridX >= 0
           /\ gridX < GRID_WIDTH
          THEN mergeFrom([g EXCEPT ![gridY + 1][gridX + 1] = cellValue],
                         s, offsetX, offsetY, shapeY, shapeX + 1)
          ELSE mergeFrom(g, s, offsetX, offsetY, shapeY, shapeX + 1)

\* variant: the top row is taken to be off the board
lockMergeBelowTop(g, s, offsetX, offsetY) ==
  [r \in 1..Len(g) |-> [c \in 1..Len(g[r]) |->
     LET shapeY == (r - 1) - offsetY
         shapeX == (c - 1) - offsetX
     IN  IF /\ r - 1 > 0
            /\ shapeY >= 0
            /\ shapeY < Len(s)
            /\ shapeX >= 0
            /\ shapeX < Len(s[shapeY + 1])
            /\ s[shapeY + 1][shapeX + 1] # 0
           THEN s[shapeY + 1][shapeX + 1]
           ELSE g[r][c]]]

\* variant: a cell off the board is written to the nearest board cell
lockMergeClamps(g, s, offsetX, offsetY) ==
  LET Clamp(v, hi) == IF v < 0 THEN 0 ELSE IF v > hi THEN hi ELSE v
      cells == UNION { { <<r, c>> : c \in {k \in 0..(Len(s[r + 1]) - 1) :
                                              s[r + 1][k + 1] # 0} } :
                       r \in 0..(Len(s) - 1) }
  IN  [r \in 1..Len(g) |-> [c \in 1..Len(g[r]) |->
         IF \E rc \in cells :
              /\ Clamp(offsetY + rc[1], GRID_HEIGHT - 1) = r - 1
              /\ Clamp(offsetX + rc[2], GRID_WIDTH - 1) = c - 1
           THEN 1
           ELSE g[r][c]]]

\* step 1 of lockPiece: the grid after the merge
lockMerge(g, s, offsetX, offsetY) == mergeFrom(g, s, offsetX, offsetY, 0, 0)

RECURSIVE clearLinesFrom(_, _, _)
\* the loop of clearLines at index row; after a removal row++ and the loop's
\* row-- look at the same index again
clearLinesFrom(g, row, clearedCount) ==
  IF row < 0 THEN [grid |-> g, ret |-> clearedCount]
  ELSE IF EveryNonZero(g[row + 1])
    THEN clearLinesFrom(Unshift(Splice1(g, row), EmptyRow), row,
                        clearedCount + 1)
    ELSE clearLinesFrom(g, row - 1, clearedCount)

RECURSIVE clearLinesNoRecheckFrom(_, _, _)
clearLinesNoRecheckFrom(g, row, clearedCount) ==
  IF row < 0 THEN [grid |-> g, ret |-> clearedCount]
  ELSE IF EveryNonZero(g[row + 1])
    THEN clearLinesNoRecheckFrom(Unshift(Splice1(g, row), EmptyRow), row - 1,
                                 clearedCount + 1)
    ELSE clearLinesNoRecheckFrom(g, row - 1, clearedCount)

\* variant: after a removal the loop moves on without looking at the same
\* index again
clearLinesNoRecheck(g) == clearLinesNoRecheckFrom(g, GRID_HEIGHT - 1, 0)

\* variant: the scan starts one row above the lowest
clearLinesSkipsFloor(g) == clearLinesFrom(g, GRID_HEIGHT - 2, 0)

\* clearLines: the grid it leaves and the count it returns
clearLines(g) == clearLinesFrom(g, GRID_HEIGHT - 1, 0)

\* lockPiece: the grid after the merge, the grid it leaves, and its result
\* variant: the lines are cleared before the shape is merged
lockPieceClearsFirst(g, s, offsetX, offsetY) ==
  LET cleared == clearLines(g)
      merged == lockMerge(cleared.grid, s, offsetX, offsetY)
  IN  [merged |-> merged, grid |-> merged, linesCleared |-> cleared.ret]

lockPiece(g, s, offsetX, offsetY) ==
  LET merged == lockMerge(g, s, offsetX, offsetY)
      cleared == clearLines(merged)
  IN  [merged |-> merged, grid |-> cleared.grid, linesCleared |-> cleared.ret]

RECURSIVE completedFrom(_, _, _)
\* the detection loop of clearLinesOptimized
completedFrom(g, row, completedRows) ==
  IF row >= GRID_HEIGHT THEN completedRows
  ELSE completedFrom(g, row + 1,
         IF EveryNonZero(g[row + 1]) THEN Append(completedRows, row)
                                     ELSE completedRows)

\* completedRows.includes(row)
Includes(seq, v) == \E k \in 1..Len(seq) : seq[k] = v

RECURSIVE remainingFrom(_, _, _, _)
\* the loop of clearLinesOptimized that keeps the rows not completed
remainingFrom(g, completedRows, row, remainingRows) ==
  IF row >= GRID_HEIGHT THEN remainingRows
  ELSE remainingFrom(g, completedRows, row + 1,
         IF ~Includes(completedRows, row) THEN Append(remainingRows, g[row + 1])
                                          ELSE remainingRows)

\* variant: the rebuilt grid has the kept rows first and the empty rows
\* below them
clearLinesOptimizedEmptyBelow(g) ==
  LET completedRows == completedFrom(g, 0, <<>>)
  IN  IF Len(completedRows) = 0 THEN [grid |-> g, ret |-> 0]
      ELSE [grid |-> remainingFrom(g, completedRows, 0, <<>>)
                       \o [i \in 1..Len(completedRows) |-> EmptyRow],
            ret |-> Len(completedRows)]

\* clearLinesOptimized: the grid it leaves and the count it returns
clearLinesOptimized(g) ==
  LET completedRows == completedFrom(g, 0, <<>>)
  IN  IF Len(completedRows) = 0 THEN [grid |-> g, ret |-> 0]
      ELSE [grid |-> [i \in 1..Len(completedRows) |-> EmptyRow]
                       \o remainingFrom(g, completedRows, 0, <<>>),
            ret |-> Len(completedRows)]

isRowComplete(g, rowIndex) ==
  IF rowIndex < 0 \/ rowIndex >= GRID_HEIGHT THEN FALSE
  ELSE EveryNonZero(g[rowIndex + 1])

RECURSIVE getCompletedRowsFrom(_, _, _)
getCompletedRowsFrom(g, row, completedRows) ==
  IF row >= GRID_HEIGHT THEN completedRows
  ELSE getCompletedRowsFrom(g, row + 1,
         IF isRowComplete(g, row) THEN Append(completedRows, row)
                                  ELSE completedRows)

getCompletedRows(g) == getCompletedRowsFrom(g, 0, <<>>)

\* ------------------------------------------------------------------------
\* rotation module (rotateShape, attemptRotation)

\* Array(n).fill(null).map(() => Array(n).fill(0))
ZeroSquare(n) == [i \in 1..n |-> [j \in 1..n |-> 0]]

RECURSIVE rotateFrom(_, _, _, _, _)
\* the assignment loops of rotateShape, from source cell (i, j) on
rotateFrom(rotated, s, direction, i, j) ==
  LET n == Len(s)
  IN  IF i >= n THEN rotated
      ELSE IF j >= n THEN rotateFrom(rotated, s, direction, i + 1, 0)
      ELSE IF direction = "clockwise"
        THEN rotateFrom([rotated EXCEPT ![j + 1][(n - 1 - i) + 1] = s[i + 1][j + 1]],
                        s, direction, i, j + 1)
        ELSE rotateFrom([rotated EXCEPT ![(n - 1 - j) + 1][i + 1] = s[i + 1][j + 1]],
                        s, direction, i, j + 1)

\* variant: the two directions are exchanged
rotateShapeExchanged(s, direction) ==
  rotateFrom(ZeroSquare(Len(s)), s,
             IF direction = "clockwise" THEN "counterClockwise" ELSE "clockwise",
             0, 0)

\* variant: the inner loop stops one column early
rotateShapeDropsColumn(s, direction) ==
  rotateFrom(ZeroSquare(Len(s)),
             [i \in 1..Len(s) |-> [j \in 1..Len(s) |->
                IF j = Len(s) THEN 0 ELSE s[i][j]]],
             direction, 0, 0)

\* variant: counter-clockwise only transposes
rotateShapeTransposes(s, direction) ==
  IF direction = "clockwise"
    THEN rotateFrom(ZeroSquare(Len(s)), s, direction, 0, 0)
    ELSE [r \in 1..Len(s) |-> [c \in 1..Len(s) |-> s[c][r]]]

\* variant: an occupied cell is copied as 1
rotateShapeMarksOne(s, direction) ==
  rotateFrom(ZeroSquare(Len(s)),
             [i \in 1..Len(s) |-> [j \in 1..Len(s) |->
                IF s[i][j] # 0 THEN 1 ELSE 0]],
             direction, 0, 0)

rotateShape(s, direction) == rotateFrom(ZeroSquare(Len(s)), s, direction, 0, 0)

\* variant: the left kick is tried before the right one
wallKickOffsetsLeftFirst == <<-1, 1, -2, 2>>

\* const wallKickOffsets = [1, -1, 2, -2]
wallKickOffsets == <<1, -1, 2, -2>>

RECURSIVE kickFrom(_, _, _, _, _)
\* the kick loop of attemptRotation, from the k-th offset on: the index of
\* the first offset at which rotated is valid, 0 when the loop ends without
kickFrom(g, rotated, offsetX, offsetY, k) ==
  IF k > Len(wallKickOffsets) THEN 0
  ELSE IF isPositionValid(g, rotated, offsetX + wallKickOffsets[k], offsetY)
    THEN k
    ELSE kickFrom(g, rotated, offsetX, offsetY, k + 1)

\* variant: a failed rotation hands back the rotated shape
attemptRotationKeepsRotated(g, s, offsetX, offsetY, direction) ==
  LET rotated == rotateShape(s, direction)
      kick == kickFrom(g, rotated, offsetX, offsetY, 1)
  IN  IF isPositionValid(g, rotated, offsetX, offsetY)
        THEN [rotated |-> rotated, x |-> offsetX, y |-> offsetY, valid |-> TRUE]
      ELSE IF kick # 0
        THEN [rotated |-> rotated, x |-> offsetX + wallKickOffsets[kick],
              y |-> offsetY, valid |-> TRUE]
      ELSE [rotated |-> rotated, x |-> offsetX, y |-> offsetY, valid |-> FALSE]

attemptRotation(g, s, offsetX, offsetY, direction) ==
  LET rotated == rotateShape(s, direction)
      kick == kickFrom(g, rotated, offsetX, offsetY, 1)
  IN  IF isPositionValid(g, rotated, offsetX, offsetY)
        THEN [rotated |-> rotated, x |-> offsetX, y |-> offsetY, valid |-> TRUE]
      ELSE IF kick # 0
        THEN [rotated |-> rotated, x |-> offsetX + wallKickOffsets[kick],
              y |-> offsetY, valid |-> TRUE]
      ELSE [rotated |-> s, x |-> offsetX, y |-> offsetY, valid |-> FALSE]

\* ------------------------------------------------------------------------
\* tetromino module (catalog, rotateTetromino)

I_PIECE == << <<0, 0, 0, 0>>, <<1, 1, 1, 1>>, <<0, 0, 0, 0>>, <<0, 0, 0, 0>> >>

O_PIECE == << <<0, 0, 0, 0>>, <<0, 2, 2, 0>>, <<0, 2, 2, 0>>, <<0, 0, 0, 0>> >>

T_PIECE == << <<0, 0, 0, 0>>, <<0, 3, 0, 0>>, <<3, 3, 3, 0>>, <<0, 0, 0, 0>> >>

S_PIECE == << <<0, 0, 0, 0>>, <<0, 4, 4, 0>>, <<4, 4, 0, 0>>, <<0, 0, 0, 0>> >>

Z_PIECE == << <<0, 0, 0, 0>>, <<5, 5, 0, 0>>, <<0, 5, 5, 0>>, <<0, 0, 0, 0>> >>

J_PIECE == << <<0, 0, 0, 0>>, <<6, 0, 0, 0>>, <<6, 6, 6, 0>>, <<0, 0, 0, 0>> >>

L_PIECE == << <<0, 0, 0, 0>>, <<0, 0, 7, 0>>, <<7, 7, 7, 0>>, <<0, 0, 0, 0>> >>

TETROMINOS == <<I_PIECE, O_PIECE, T_PIECE, S_PIECE, Z_PIECE, J_PIECE, L_PIECE>>

\* variant: an index outside the catalog is brought into it
getTetrominoByIndexWraps(index) ==
  [threw |-> FALSE, ret |-> TETROMINOS[(index % Len(TETROMINOS)) + 1]]

\* getTetrominoByIndex of the tetromino module: a copy of the catalog shape,
\* an error for an index outside the catalog
getTetrominoByIndex(index) ==
  IF index < 0 \/ index >= Len(TETROMINOS)
    THEN [threw |-> TRUE, ret |-> <<>>]
    ELSE [threw |-> FALSE, ret |-> TETROMINOS[index + 1]]

RECURSIVE rotateTetrominoFrom(_, _, _, _)
\* the assignment loops of rotateTetromino, from source cell (i, j) on
rotateTetrominoFrom(rotated, s, i, j) ==
  LET n == Len(s)
  IN  IF i >= n THEN rotated
      ELSE IF j >= n THEN rotateTetrominoFrom(rotated, s, i + 1, 0)
      ELSE rotateTetrominoFrom(
             [rotated EXCEPT ![j + 1][(n - 1 - i) + 1] = s[i + 1][j + 1]],
             s, i, j + 1)

rotateTetromino(s) == rotateTetrominoFrom(ZeroSquare(Len(s)), s, 0, 0)

\* variant: the last two offsets of the I piece's 2->3 entry change places
Tetromino_SRS_WALL_KICK_DATA_Reordered ==
  [normal |->
     ("0->1" :> << [x |-> 0, y |-> 0], [x |-> -1, y |-> 0], [x |-> -1, y |-> 1],
                   [x |-> 0, y |-> -2], [x |-> -1, y |-> -2] >>) @@
     ("1->2" :> << [x |-> 0, y |-> 0], [x |-> 1, y |-> 0], [x |-> 1, y |-> -1],
                   [x |-> 0, y |-> 2], [x |-> 1, y |-> 2] >>) @@
     ("2->3" :> << [x |-> 0, y |-> 0], [x |-> 1, y |-> 0], [x |-> 1, y |-> 1],
                   [x |-> 0, y |-> -2], [x |-> 1, y |-> -2] >>) @@
     ("3->0" :> << [x |-> 0, y |-> 0], [x |-> -1, y |-> 0], [x |-> -1, y |-> -1],
                   [x |-> 0, y |-> 2], [x |-> -1, y |-> 2] >>),
   I |->
     ("0->1" :> << [x |-> 0, y |-> 0], [x |-> -2, y |-> 0], [x |-> 1, y |-> 0],
                   [x |-> -2, y |-> -1], [x |-> 1, y |-> 2] >>) @@
     ("1->2" :> << [x |-> 0, y |-> 0], [x |-> -1, y |-> 0], [x |-> 2, y |-> 0],
                   [x |-> -1, y |-> 2], [x |-> 2, y |-> -1] >>) @@
     ("2->3" :> << [x |-> 0, y |-> 0], [x |-> 2, y |-> 0], [x |-> -1, y |-> 0],
                   [x |-> -1, y |-> -2], [x |-> 2, y |-> 1] >>) @@
     ("3->0" :> << [x |-> 0, y |-> 0], [x |-> 1, y |-> 0], [x |-> -2, y |-> 0],
                   [x |-> 1, y |-> -2], [x |-> -2, y |-> 1] >>)]

\* SRS_WALL_KICK_DATA of the tetromino module (the rotation module has a
\* table of the same name, below)
Tetromino_SRS_WALL_KICK_DATA ==
  [normal |->
     ("0->1" :> << [x |-> 0, y |-> 0], [x |-> -1, y |-> 0], [x |-> -1, y |-> 1],
                   [x |-> 0, y |-> -2], [x |-> -1, y |-> -2] >>) @@
     ("1->2" :> << [x |-> 0, y |-> 0], [x |-> 1, y |-> 0], [x |-> 1, y |-> -1],
                   [x |-> 0, y |-> 2], [x |-> 1, y |-> 2] >>) @@
     ("2->3" :> << [x |-> 0, y |-> 0], [x |-> 1, y |-> 0], [x |-> 1, y |-> 1],
                   [x |-> 0, y |-> -2], [x |-> 1, y |-> -2] >>) @@
     ("3->0" :> << [x |-> 0, y |-> 0], [x |-> -1, y |-> 0], [x |-> -1, y |-> -1],
                   [x |-> 0, y |-> 2], [x |-> -1, y |-> 2] >>),
   I |->
     ("0->1" :> << [x |-> 0, y |-> 0], [x |-> -2, y |-> 0], [x |-> 1, y |-> 0],
                   [x |-> -2, y |-> -1], [x |-> 1, y |-> 2] >>) @@
     ("1->2" :> << [x |-> 0, y |-> 0], [x |-> -1, y |-> 0], [x |-> 2, y |-> 0],
                   [x |-> -1, y |-> 2], [x |-> 2, y |-> -1] >>) @@
     ("2->3" :> << [x |-> 0, y |-> 0], [x |-> 2, y |-> 0], [x |-> -1, y |-> 0],
                   [x |-> 2, y |-> 1], [x |-> -1, y |-> -2] >>) @@
     ("3->0" :> << [x |-> 0, y |-> 0], [x |-> 1, y |-> 0], [x |-> -2, y |-> 0],
                   [x |-> 1, y |-> -2], [x |-> -2, y |-> 1] >>)]

\* ------------------------------------------------------------------------
\* Inputs of the model: boards, shapes and offsets a caller passes

Columns == 0..(GRID_WIDTH - 1)

\* a row occupied exactly at the columns of cols; its blocks carry a value
\* 1..7 that depends on the row's index, so that rows can be told apart
PatternRow(cols, rowIndex) ==
  [c \in 1..GRID_WIDTH |-> IF (c - 1) \in cols THEN 1 + (rowIndex % 7) ELSE 0]

\* the board whose lowest rows are occupied as bottom says (top to bottom)
\* and whose other rows are empty
BoardOf(bottom) ==
  [r \in 1..GRID_HEIGHT |->
     IF r <= GRID_HEIGHT - Len(bottom) THEN EmptyRow
     ELSE PatternRow(bottom[r - (GRID_HEIGHT - Len(bottom))], r - 1)]

SeqsUpTo(S, n) == UNION {[1..k -> S] : k \in 0..n}

\* the I piece standing upright (its blocks in local column 2)
I_UPRIGHT == rotateShape(I_PIECE, "clockwise")

\* the 2x2 solid square of the collision tests
SQUARE2 == << <<1, 1>>, <<1, 1>> >>

\* the 1-wide, 4-tall shape of the collision tests
COLUMN4 == << <<1>>, <<1>>, <<1>>, <<1>> >>

Directions == {"clockwise", "counterClockwise"}

RECURSIVE RotationsOf(_, _)
\* s and the k shapes that follow it under clockwise rotation
RotationsOf(s, k) ==
  IF k = 0 THEN {s} ELSE {s} \cup RotationsOf(rotateShape(s, "clockwise"), k - 1)

\* every catalog shape in each of its four orientations
CatalogShapes == UNION {RotationsOf(TETROMINOS[k], 3) : k \in 1..Len(TETROMINOS)}

NoCall ==
  [fn |-> "none", shape |-> <<>>, x |-> 0, y |-> 0, direction |-> "",
   rowIndices |-> <<>>, before |-> <<>>, merged |-> <<>>, ret |-> 0,
   threw |-> FALSE]

\* the object variables while no scene, ScoreManager or array is in use
ObjIdle ==
  /\ scene = <<>>
  /\ sm = <<>>
  /\ counts = <<>>
  /\ heap = <<>>

\* the bag variables while no PieceBag or NextHoldManager is in use
BagIdle ==
  /\ pieceBag = <<>>
  /\ dealt = <<>>
  /\ nextHold = <<>>

\* the rotation variables while no shape is being rotated
RotIdle ==
  /\ shape = <<>>
  /\ orig = <<>>
  /\ nCW = 0
  /\ nCCW = 0
  /\ nTet = 0

\* ------------------------------------------------------------------------
\* Queries: isPositionValid and attemptRotation on a board

\* rows 16..19 full but for a well at column 5
WellBoard ==
  BoardOf(<<Columns \ {5}, Columns \ {5}, Columns \ {5}, Columns \ {5}>>)

\* a slot three columns wide (columns 4..6) and, below it, a floor with
\* one hole
SlotBoard ==
  BoardOf(<<Columns \ {4, 5, 6}, Columns \ {4, 5, 6}, Columns \ {4, 5, 6},
            Columns \ {4, 5, 6}, Columns \ {0}>>)

\* stairs at the left wall and a tower at column 8
StairBoard == BoardOf(<<{0, 8}, {0, 1, 8}, {0, 1, 2, 8}, {0, 1, 2, 3, 8}>>)

QueryBoards == {BoardOf(<<>>), WellBoard, SlotBoard, StairBoard}

QueryShapes == CatalogShapes \cup {SQUARE2}

QueryXs == (0 - Margin - 1)..(GRID_WIDTH - 1 + Margin)

QueryYs == ((0 - Margin)..0) \cup ((GRID_HEIGHT - 6)..(GRID_HEIGHT - 3 + Margin))

InitCollision ==
  /\ grid \in QueryBoards
  /\ call = NoCall
  /\ steps = 0
  /\ RotIdle
  /\ BagIdle
  /\ ObjIdle

\* a query is a pure function of its arguments: a behaviour makes one
IsPositionValidCall ==
  \E s \in QueryShapes, x \in QueryXs, y \in QueryYs :
    /\ call.fn = "none"
    /\ call' = [NoCall EXCEPT !.fn = "isPositionValid", !.shape = s, !.x = x,
                              !.y = y, !.before = grid,
                              !.ret = isPositionValid(grid, s, x, y)]
    /\ UNCHANGED <<grid, steps>>
    /\ UNCHANGED rotVars
    /\ UNCHANGED bagVars
    /\ UNCHANGED objVars

AttemptRotationCall ==
  \E s \in QueryShapes, x \in QueryXs, y \in QueryYs, d \in Directions :
    /\ call.fn = "none"
    /\ call' = [NoCall EXCEPT !.fn = "attemptRotation", !.shape = s, !.x = x,
                              !.y = y, !.direction = d, !.before = grid,
                              !.ret = attemptRotation(grid, s, x, y, d)]
    /\ UNCHANGED <<grid, steps>>
    /\ UNCHANGED rotVars
    /\ UNCHANGED bagVars
    /\ UNCHANGED objVars

NextCollision ==
  \/ IsPositionValidCall
  \/ AttemptRotationCall

SpecCollision == InitCollision /\ [][NextCollision]_vars

\* ------------------------------------------------------------------------
\* Board-mutating calls: lockPiece, placeTetromino, clearLines,
\* clearLinesOptimized, removeRows

\* rows that lack one, two or four blocks
LockPatterns == {Columns \ {5}, Columns \ {4, 5}, Columns \ {0, 1, 2, 3}}

LockBoards == {BoardOf(b) : b \in SeqsUpTo(LockPatterns, MaxFill)}

\* <<shape, offsetX, offsetY>> of a call
PieceInputs ==
  { <<I_UPRIGHT, 3, GRID_HEIGHT - 4>>,           \* column 5, rows 16..19
    <<I_UPRIGHT, 3, GRID_HEIGHT - 2>>,           \* column 5, partly below the floor
    <<I_UPRIGHT, 3, 0 - Margin>>,                \* column 5, partly above the top
    <<O_PIECE, 3, GRID_HEIGHT - 3>>,             \* columns 4..5, rows 18..19
    <<I_PIECE, 0, GRID_HEIGHT - 2>>,             \* columns 0..3, row 19
    <<I_PIECE, 0 - Margin, GRID_HEIGHT - 3>>,    \* row 18, partly left of the wall
    <<T_PIECE, GRID_WIDTH - 2, GRID_HEIGHT - 3>>,  \* partly right of the wall
    <<SQUARE2, 4, GRID_HEIGHT - 2>>,             \* columns 4..5, rows 18..19
    <<COLUMN4, 5, GRID_HEIGHT - 4>>,             \* column 5, rows 16..19
    <<ZeroSquare(2), 4, GRID_HEIGHT - 2>>,       \* no occupied cell
    <<SQUARE2, GRID_WIDTH + Margin, GRID_HEIGHT + Margin>> }  \* off the board

InitLock ==
  /\ grid \in LockBoards
  /\ call = NoCall
  /\ steps = 0
  /\ RotIdle
  /\ BagIdle
  /\ ObjIdle

LockPieceCall ==
  \E in \in PieceInputs :
    LET r == lockPiece(grid, in[1], in[2], in[3])
    IN  /\ steps < MaxSteps
        /\ grid' = r.grid
        /\ call' = [NoCall EXCEPT !.fn = "lockPiece", !.shape = in[1],
                                  !.x = in[2], !.y = in[3], !.before = grid,
                                  !.merged = r.merged, !.ret = r.linesCleared]
        /\ steps' = steps + 1
        /\ UNCHANGED rotVars
        /\ UNCHANGED bagVars
        /\ UNCHANGED objVars

NextLock == LockPieceCall

SpecLock == InitLock /\ [][NextLock]_vars

\* boards that hold completed rows: the lowest two; rows 16 and 18; rows
\* 14, 15 and 17; the lowest four
FullRowBoards ==
  { BoardOf(<<Columns, Columns>>),
    BoardOf(<<Columns, {0, 1}, Columns, Columns \ {5}>>),
    BoardOf(<<Columns, Columns, {2, 3}, Columns, {0, 1}, Columns \ {5}>>),
    BoardOf(<<Columns, Columns, Columns, Columns>>) }

MutatorBoards ==
  {BoardOf(b) : b \in SeqsUpTo(LockPatterns, 1)} \cup FullRowBoards

\* row indices a caller hands to removeRows; GRID_HEIGHT is the first index
\* past the last row
RowIndexChoices == {0, GRID_HEIGHT - 3, GRID_HEIGHT - 1, GRID_HEIGHT}

RowIndexLists == SeqsUpTo(RowIndexChoices, 2) \ {<<>>}

InitBoard ==
  /\ grid \in MutatorBoards
  /\ call = NoCall
  /\ steps = 0
  /\ RotIdle
  /\ BagIdle
  /\ ObjIdle

PlaceTetrominoCall ==
  \E in \in PieceInputs :
    LET r == placeTetromino(grid, in[1], in[2], in[3])
    IN  /\ steps < MaxSteps
        /\ grid' = r.grid
        /\ call' = [NoCall EXCEPT !.fn = "placeTetromino", !.shape = in[1],
                                  !.x = in[2], !.y = in[3], !.before = grid,
                                  !.ret = r.ret]
        /\ steps' = steps + 1
        /\ UNCHANGED rotVars
        /\ UNCHANGED bagVars
        /\ UNCHANGED objVars

ClearLinesCall ==
  LET r == clearLines(grid)
  IN  /\ steps < MaxSteps
      /\ grid' = r.grid
      /\ call' = [NoCall EXCEPT !.fn = "clearLines", !.before = grid,
                                !.ret = r.ret]
      /\ steps' = steps + 1
      /\ UNCHANGED rotVars
      /\ UNCHANGED bagVars
      /\ UNCHANGED objVars

ClearLinesOptimizedCall ==
  LET r == clearLinesOptimized(grid)
  IN  /\ steps < MaxSteps
      /\ grid' = r.grid
      /\ call' = [NoCall EXCEPT !.fn = "clearLinesOptimized", !.before = grid,
                                !.ret = r.ret]
      /\ steps' = steps + 1
      /\ UNCHANGED rotVars
      /\ UNCHANGED bagVars
      /\ UNCHANGED objVars

\* a call that throws returns nothing
RemoveRowsCall ==
  \E rowIndices \in RowIndexLists :
    LET r == removeRows(grid, rowIndices)
    IN  /\ steps < MaxSteps
        /\ grid' = r.grid
        /\ call' = [NoCall EXCEPT !.fn = "removeRows",
                                  !.rowIndices = rowIndices, !.before = grid,
                                  !.ret = IF r.threw THEN 0 ELSE r.ret,
                                  !.threw = r.threw]
        /\ steps' = steps + 1
        /\ UNCHANGED rotVars
        /\ UNCHANGED bagVars
        /\ UNCHANGED objVars

NextBoard ==
  \/ LockPieceCall
  \/ PlaceTetrominoCall
  \/ ClearLinesCall
  \/ ClearLinesOptimizedCall
  \/ RemoveRowsCall

SpecBoard == InitBoard /\ [][NextBoard]_vars

\* ------------------------------------------------------------------------
\* Rotations of one shape: rotateShape in either direction, rotateTetromino

RECURSIVE CellSets(_, _)
\* the sets of at most k cells of an n x n square
CellSets(n, k) ==
  IF k = 0 THEN {{}}
  ELSE LET smaller == CellSets(n, k - 1)
       IN  smaller \cup {S \cup {p} : S \in smaller, p \in (1..n) \X (1..n)}

\* the n x n shape occupied at the cells of S; a block carries a value 1..7
\* that depends on its cell, so that blocks can be told apart
SquareShape(n, S) ==
  [r \in 1..n |-> [c \in 1..n |->
     IF <<r, c>> \in S THEN 1 + (((r - 1) * n + (c - 1)) % 7) ELSE 0]]

GenericShapes == UNION {{SquareShape(n, S) : S \in CellSets(n, MaxCells)} : n \in 1..MaxN}

RotateShapes == GenericShapes \cup {TETROMINOS[k] : k \in 1..Len(TETROMINOS)}

InitRotate ==
  /\ shape \in RotateShapes
  /\ orig = shape
  /\ nCW = 0
  /\ nCCW = 0
  /\ nTet = 0
  /\ grid = <<>>
  /\ call = NoCall
  /\ steps = 0
  /\ ObjIdle
  /\ BagIdle

RotateShapeCall ==
  \E d \in Directions :
    LET rotated == rotateShape(shape, d)
    IN  /\ nCW + nCCW + nTet < MaxRot
        /\ shape' = rotated
        /\ nCW' = IF d = "clockwise" THEN nCW + 1 ELSE nCW
        /\ nCCW' = IF d = "clockwise" THEN nCCW ELSE nCCW + 1
        /\ call' = [NoCall EXCEPT !.fn = "rotateShape", !.shape = shape,
                                  !.direction = d, !.ret = rotated]
        /\ UNCHANGED <<orig, nTet, grid, steps>>
        /\ UNCHANGED objVars
        /\ UNCHANGED bagVars

RotateTetrominoCall ==
  LET rotated == rotateTetromino(shape)
  IN  /\ nCW + nCCW + nTet < MaxRot
      /\ shape' = rotated
      /\ nTet' = nTet + 1
      /\ call' = [NoCall EXCEPT !.fn = "rotateTetromino", !.shape = shape,
                                !.ret = rotated]
      /\ UNCHANGED <<orig, nCW, nCCW, grid, steps>>
      /\ UNCHANGED objVars
      /\ UNCHANGED bagVars

\* the indexes a caller passes to getTetrominoByIndex
TetrominoIndexes == (0 - Margin)..(Len(TETROMINOS) - 1 + Margin)

\* a caller that has not rotated its shape yet asks for a catalog shape and
\* goes on with it, or keeps its shape when the call throws
GetTetrominoByIndexCall ==
  \E index \in TetrominoIndexes :
    LET r == getTetrominoByIndex(index)
    IN  /\ call.fn = "none"
        /\ nCW + nCCW + nTet = 0
        /\ shape' = IF r.threw THEN shape ELSE r.ret
        /\ orig' = IF r.threw THEN orig ELSE r.ret
        /\ call' = [NoCall EXCEPT !.fn = "getTetrominoByIndex", !.x = index,
                                  !.ret = r.ret, !.threw = r.threw]
        /\ UNCHANGED <<nCW, nCCW, nTet, grid, steps>>
        /\ UNCHANGED objVars
        /\ UNCHANGED bagVars

NextRotate ==
  \/ RotateShapeCall
  \/ RotateTetrominoCall
  \/ GetTetrominoByIndexCall

SpecRotate == InitRotate /\ [][NextRotate]_vars

\* ------------------------------------------------------------------------
\* GameScene.ts (the host scene).  A scene is a record of its fields: grid,
\* gameState, currentPiece, debugCounters, fallTimer, isInputLocked,
\* keyboardCallbacks (the keys that have a callback), of the delayed calls
\* that unlock the input and have not run yet (unlockCalls), and of the
\* currentState of its GameUI (ui).  A method is an operator from the scene
\* it is called on to the scene it leaves.  The null blocks of currentPiece
\* are written <<>>, its null type "null".

GAME_CONFIG ==
  [GRID |-> [WIDTH |-> 10, HEIGHT |-> 20],
   TIMING |-> [FALL_DELAY |-> 1000],
   SCORING |-> [POINTS_PER_LINE |-> 100],
   DEBUG |-> [MAX_SPAWN_ATTEMPTS |-> 5]]

WALL_KICK_OFFSETS ==
  << [x |-> -1, y |-> 0], [x |-> 1, y |-> 0], [x |-> -2, y |-> 0],
     [x |-> 2, y |-> 0], [x |-> 0, y |-> -1] >>

tetrominoTypes == <<"I", "O", "T", "S", "Z", "J", "L">>

\* the fallTimer field while it is null
NoTimer == [active |-> FALSE, delay |-> 0, paused |-> FALSE]

isValidGridPosition(row, col) ==
  /\ row >= 0
  /\ row < GAME_CONFIG.GRID.HEIGHT
  /\ col >= 0
  /\ col < GAME_CONFIG.GRID.WIDTH

canPlacePiece(sc, x, y) ==
  LET blocks == sc.currentPiece.blocks
  IN  IF blocks = <<>> THEN FALSE
      ELSE \A rowIndex \in 0..(Len(blocks) - 1) :
             \A colIndex \in 0..(Len(blocks[rowIndex + 1]) - 1) :
               \/ blocks[rowIndex + 1][colIndex + 1] = 0
               \/ /\ isValidGridPosition(y + rowIndex, x + colIndex)
                  /\ sc.grid[y + rowIndex + 1][x + colIndex + 1] = 0

RECURSIVE getRotatedShapeFrom(_, _, _, _)
\* the assignment loops of getRotatedShape, from source cell (i, j) on
getRotatedShapeFrom(rotated, s, i, j) ==
  LET n == Len(s)
  IN  IF i >= n THEN rotated
      ELSE IF j >= n THEN getRotatedShapeFrom(rotated, s, i + 1, 0)
      ELSE getRotatedShapeFrom(
             [rotated EXCEPT ![j + 1][(n - 1 - i) + 1] = s[i + 1][j + 1]],
             s, i, j + 1)

getRotatedShape(s) == getRotatedShapeFrom(ZeroSquare(Len(s)), s, 0, 0)

RECURSIVE tryWallKickFrom(_, _)
\* the loop of tryWallKick, from the k-th offset on
tryWallKickFrom(sc, k) ==
  IF k > Len(WALL_KICK_OFFSETS) THEN [scene |-> sc, ret |-> FALSE]
  ELSE
    LET newX == sc.currentPiece.x + WALL_KICK_OFFSETS[k].x
        newY == sc.currentPiece.y + WALL_KICK_OFFSETS[k].y
    IN  IF canPlacePiece(sc, newX, newY)
          THEN [scene |-> [sc EXCEPT !.currentPiece.x = newX,
                                     !.currentPiece.y = newY],
                ret |-> TRUE]
          ELSE tryWallKickFrom(sc, k + 1)

tryWallKick(sc) == tryWallKickFrom(sc, 1)

rotatePiece(sc) ==
  IF sc.currentPiece.blocks = <<>> THEN sc
  ELSE
    LET originalShape == sc.currentPiece.blocks
        turned == [sc EXCEPT !.currentPiece.blocks = getRotatedShape(originalShape)]
        kicked == tryWallKick(turned)
    IN  IF canPlacePiece(turned, turned.currentPiece.x, turned.currentPiece.y)
          THEN turned
        ELSE IF kicked.ret THEN kicked.scene
        ELSE [turned EXCEPT !.currentPiece.blocks = originalShape]

handleRotate(sc) ==
  rotatePiece([sc EXCEPT !.debugCounters.rotationAttempts = @ + 1])

\* the delay calculateFallDelay never goes below: Math.max(100, ...)
MIN_FALL_DELAY == 100

calculateFallDelay(sc) ==
  LET d == GAME_CONFIG.TIMING.FALL_DELAY - (sc.gameState.level - 1) * 100
  IN  IF d > MIN_FALL_DELAY THEN d ELSE MIN_FALL_DELAY

stopFallTimer(sc) == [sc EXCEPT !.fallTimer = NoTimer]

startFallTimer(sc) ==
  [stopFallTimer(sc) EXCEPT
     !.fallTimer = [active |-> TRUE, delay |-> calculateFallDelay(sc),
                    paused |-> FALSE]]

updateFallSpeed(sc) ==
  IF sc.fallTimer.active /\ sc.gameState.isPlaying THEN startFallTimer(sc)
  ELSE sc

\* variant: a new level leaves the fall timer as it is
updateScoreKeepsSpeed(sc, linesCleared) ==
  LET counted ==
        [sc EXCEPT !.gameState.lines = @ + linesCleared,
                   !.gameState.score =
                      @ + linesCleared * GAME_CONFIG.SCORING.POINTS_PER_LINE]
      newLevel == (counted.gameState.lines \div 10) + 1
  IN  IF newLevel > counted.gameState.level
        THEN [counted EXCEPT !.gameState.level = newLevel]
        ELSE counted

updateScore(sc, linesCleared) ==
  LET counted ==
        [sc EXCEPT !.gameState.lines = @ + linesCleared,
                   !.gameState.score =
                      @ + linesCleared * GAME_CONFIG.SCORING.POINTS_PER_LINE]
      newLevel == (counted.gameState.lines \div 10) + 1
  IN  IF newLevel > counted.gameState.level
        THEN updateFallSpeed([counted EXCEPT !.gameState.level = newLevel])
        ELSE counted

\* GameScene.isRowComplete
sceneIsRowComplete(sc, row) ==
  /\ row >= 0
  /\ row < GAME_CONFIG.GRID.HEIGHT
  /\ EveryNonZero(sc.grid[row + 1])

clearLine(sc, row) ==
  [sc EXCEPT !.grid = Unshift(Splice1(@, row),
                              [c \in 1..GAME_CONFIG.GRID.WIDTH |-> 0])]

RECURSIVE sceneCompletedRowsFrom(_, _, _)
\* the detection loop of checkAndClearLines, from index row on
sceneCompletedRowsFrom(sc, row, completedRows) ==
  IF row >= GAME_CONFIG.GRID.HEIGHT THEN completedRows
  ELSE sceneCompletedRowsFrom(sc, row + 1,
         IF sceneIsRowComplete(sc, row) THEN Append(completedRows, row)
                                        ELSE completedRows)

RECURSIVE clearCompletedFrom(_, _, _, _)
\* the removal loop of checkAndClearLines: completedRows[i] down to
\* completedRows[0]
clearCompletedFrom(sc, completedRows, i, linesCleared) ==
  IF i < 0 THEN [scene |-> sc, linesCleared |-> linesCleared]
  ELSE clearCompletedFrom(clearLine(sc, completedRows[i + 1]), completedRows,
                          i - 1, linesCleared + 1)

\* checkAndClearLines: the scene it leaves and the lines it counted
checkAndClearLines(sc) ==
  LET entered == [sc EXCEPT !.debugCounters.clearLinesCalls = @ + 1]
      completedRows == sceneCompletedRowsFrom(entered, 0, <<>>)
      cleared == clearCompletedFrom(entered, completedRows,
                                    Len(completedRows) - 1, 0)
      scored == IF cleared.linesCleared > 0
                  THEN updateScore(cleared.scene, cleared.linesCleared)
                  ELSE cleared.scene
  IN  IF entered.debugCounters.clearLinesCalls > 50
        THEN [scene |-> entered, linesCleared |-> 0]
        ELSE [scene |-> [scored EXCEPT !.debugCounters.clearLinesCalls = 0],
              linesCleared |-> cleared.linesCleared]

\* GameUI.gameOver
GameUI_gameOver(sc) == [sc EXCEPT !.ui = "GameOver"]

gameOver(sc) ==
  GameUI_gameOver(
    [stopFallTimer([sc EXCEPT !.gameState.isPlaying = FALSE]) EXCEPT
       !.debugCounters = [spawnAttempts |-> 0, lockPieceCalls |-> 0,
                          clearLinesCalls |-> 0, rotationAttempts |-> 0]])

\* spawnNewPiece when Math.floor(Math.random() * 7) is tetrominoIndex
spawnNewPiece(sc, tetrominoIndex) ==
  LET entered == [sc EXCEPT !.debugCounters.spawnAttempts = @ + 1]
      spawned ==
        [entered EXCEPT
           !.currentPiece =
              [blocks |-> getTetrominoByIndex(tetrominoIndex).ret,
               type |-> tetrominoTypes[tetrominoIndex + 1],
               x |-> (GAME_CONFIG.GRID.WIDTH \div 2) - 2,
               y |-> 0]]
  IN  IF entered.debugCounters.spawnAttempts > GAME_CONFIG.DEBUG.MAX_SPAWN_ATTEMPTS
        THEN gameOver(entered)
      ELSE IF ~entered.gameState.isPlaying THEN entered
      ELSE IF ~canPlacePiece(spawned, spawned.currentPiece.x, spawned.currentPiece.y)
        THEN gameOver(spawned)
      ELSE [spawned EXCEPT !.debugCounters.spawnAttempts = 0]

RECURSIVE sceneMergeFrom(_, _, _, _)
\* the forEach loops of GameScene.lockPiece, from cell (rowIndex, colIndex)
\* of the piece on
sceneMergeFrom(sc, g, rowIndex, colIndex) ==
  LET blocks == sc.currentPiece.blocks
  IN  IF rowIndex >= Len(blocks) THEN g
      ELSE IF colIndex >= Len(blocks[rowIndex + 1])
        THEN sceneMergeFrom(sc, g, rowIndex + 1, 0)
      ELSE
        LET cell == blocks[rowIndex + 1][colIndex + 1]
            gridRow == sc.currentPiece.y + rowIndex
            gridCol == sc.currentPiece.x + colIndex
        IN  IF cell # 0 /\ isValidGridPosition(gridRow, gridCol)
              THEN sceneMergeFrom(sc, [g EXCEPT ![gridRow + 1][gridCol + 1] = cell],
                                  rowIndex, colIndex + 1)
              ELSE sceneMergeFrom(sc, g, rowIndex, colIndex + 1)

\* what a handler that did not lock the piece leaves
NotLocked(sc) ==
  [scene |-> sc, locked |-> FALSE, merged |-> <<>>, linesCleared |-> 0]

\* GameScene.lockPiece: the scene it leaves, whether it merged the piece,
\* the grid right after the merge and the lines it counted
sceneLockPiece(sc, tetrominoIndex) ==
  LET entered == [sc EXCEPT !.debugCounters.lockPieceCalls = @ + 1]
      merged == [entered EXCEPT !.grid = sceneMergeFrom(entered, @, 0, 0)]
      checked == checkAndClearLines(merged)
  IN  IF entered.currentPiece.blocks = <<>> \/ entered.currentPiece.type = "null"
        THEN NotLocked(entered)
      ELSE IF entered.debugCounters.lockPieceCalls > 100
        THEN NotLocked(gameOver(entered))
      ELSE [scene |-> IF checked.scene.gameState.isPlaying
                        THEN spawnNewPiece(checked.scene, tetrominoIndex)
                        ELSE checked.scene,
            locked |-> TRUE,
            merged |-> merged.grid,
            linesCleared |-> checked.linesCleared]

\* variant: a sideways move is made without asking canPlacePiece
movePieceSideways(sc, dx, dy, tetrominoIndex) ==
  LET newX == sc.currentPiece.x + dx
      newY == sc.currentPiece.y + dy
  IN  IF sc.currentPiece.blocks = <<>> THEN NotLocked(sc)
      ELSE IF dx # 0 \/ canPlacePiece(sc, newX, newY)
        THEN NotLocked([sc EXCEPT !.currentPiece.x = newX,
                                  !.currentPiece.y = newY])
      ELSE IF dy > 0 THEN sceneLockPiece(sc, tetrominoIndex)
      ELSE NotLocked(sc)

movePiece(sc, dx, dy, tetrominoIndex) ==
  LET newX == sc.currentPiece.x + dx
      newY == sc.currentPiece.y + dy
  IN  IF sc.currentPiece.blocks = <<>> THEN NotLocked(sc)
      ELSE IF canPlacePiece(sc, newX, newY)
        THEN NotLocked([sc EXCEPT !.currentPiece.x = newX,
                                  !.currentPiece.y = newY])
      ELSE IF dy > 0 THEN sceneLockPiece(sc, tetrominoIndex)
      ELSE NotLocked(sc)

\* the keyMappings of setupKeyboardControls
keyMappings(sc, key, tetrominoIndex) ==
  CASE key = "LEFT" -> movePiece(sc, -1, 0, tetrominoIndex)
    [] key = "RIGHT" -> movePiece(sc, 1, 0, tetrominoIndex)
    [] key = "DOWN" -> movePiece(sc, 0, 1, tetrominoIndex)
    [] key = "UP" -> NotLocked(handleRotate(sc))
    [] key = "SPACE" -> movePiece(sc, 0, 1, tetrominoIndex)

\* the keys of keyMappings
Keys == {"LEFT", "RIGHT", "DOWN", "UP", "SPACE"}

setupKeyboardControls(sc) == [sc EXCEPT !.keyboardCallbacks = Keys]

\* initializeGrid: Array(HEIGHT).fill(null).map(() => Array(WIDTH).fill(0))
initializeGrid ==
  [r \in 1..GAME_CONFIG.GRID.HEIGHT |-> [c \in 1..GAME_CONFIG.GRID.WIDTH |-> 0]]

\* variant: the last row is left as it is
clearGridAboveFloor(sc) ==
  [sc EXCEPT !.grid = [r \in 1..Len(@) |-> [c \in 1..Len(@[r]) |->
     IF r < GAME_CONFIG.GRID.HEIGHT /\ c <= GAME_CONFIG.GRID.WIDTH
       THEN 0 ELSE @[r][c]]]]

clearGrid(sc) ==
  [sc EXCEPT !.grid = [r \in 1..Len(@) |-> [c \in 1..Len(@[r]) |->
     IF r <= GAME_CONFIG.GRID.HEIGHT /\ c <= GAME_CONFIG.GRID.WIDTH
       THEN 0 ELSE @[r][c]]]]

resetGameState(sc) ==
  [sc EXCEPT !.gameState = [isPlaying |-> TRUE, score |-> 0, level |-> 1,
                            lines |-> 0]]

\* startGameplay when Math.floor(Math.random() * 7) is tetrominoIndex; the
\* delayed call that unlocks the input is left to run later
startGameplay(sc, tetrominoIndex) ==
  IF sc.gameState.isPlaying THEN sc
  ELSE
    LET playing == [sc EXCEPT !.gameState.isPlaying = TRUE]
        cleared == clearGrid(resetGameState(playing))
        spawned == spawnNewPiece(cleared, tetrominoIndex)
        bound == setupKeyboardControls(startFallTimer(spawned))
    IN  [bound EXCEPT !.isInputLocked = TRUE, !.unlockCalls = @ + 1]

pauseGameplay(sc) ==
  [sc EXCEPT !.gameState.isPlaying = FALSE,
             !.fallTimer.paused = IF sc.fallTimer.active THEN TRUE ELSE @]

resumeGameplay(sc) ==
  [sc EXCEPT !.gameState.isPlaying = TRUE,
             !.fallTimer.paused = IF sc.fallTimer.active THEN FALSE ELSE @]

stopGameplay(sc) ==
  clearGrid(stopFallTimer([sc EXCEPT !.gameState.isPlaying = FALSE]))

restartGame(sc, tetrominoIndex) ==
  LET reset == resetGameState(stopGameplay(sc))
  IN  startGameplay(
        [reset EXCEPT
           !.isInputLocked = FALSE,
           !.debugCounters = [spawnAttempts |-> 0, lockPieceCalls |-> 0,
                              clearLinesCalls |-> 0, rotationAttempts |-> 0]],
        tetrominoIndex)

\* ------------------------------------------------------------------------
\* The host scene in the middle of a game: key presses and timer ticks

\* how many key presses and timer ticks one behaviour handles
MaxEvents == 4

\* a row left by two lying I pieces and a standing one, open at column 5
SceneRowI == <<1, 1, 1, 1, 1, 0, 1, 1, 1, 1>>

\* a row left by four O pieces and a standing I piece, open at column 5
SceneRowO == <<2, 2, 2, 2, 1, 0, 2, 2, 2, 2>>

\* a row left by four O pieces and an L piece, open at column 5
SceneRowL == <<2, 2, 2, 2, 7, 0, 2, 2, 2, 2>>

\* the top of that L piece
SceneRowHook == <<0, 0, 0, 7, 7, 0, 0, 0, 0, 0>>

\* the grid whose lowest rows are bottom and whose other rows are empty
SceneGridOf(bottom) ==
  [r \in 1..GAME_CONFIG.GRID.HEIGHT |->
     IF r <= GAME_CONFIG.GRID.HEIGHT - Len(bottom)
       THEN [c \in 1..GAME_CONFIG.GRID.WIDTH |-> 0]
       ELSE bottom[r - (GAME_CONFIG.GRID.HEIGHT - Len(bottom))]]

\* a row left by a standing I piece alone
SceneRowPeg == <<0, 0, 0, 0, 0, 1, 0, 0, 0, 0>>

\* grids of a game, each with the number of pieces locked to build it and
\* the number of lines cleared on the way: the empty grid of a new game; a
\* well four rows deep at column 5; a well two rows deep under a hook; a
\* standing I piece; the grid emptied for the twentieth time by the pieces
\* I, I, O, I, I laid along the floor, which clear a line with the third
\* and with the fifth piece; four standing I pieces on top of each other,
\* which leave four rows to the piece that comes next; the well again, in
\* a game that has cleared eight lines
SceneGrids ==
  { [grid |-> SceneGridOf(<<>>), locks |-> 0, lines |-> 0],
    [grid |-> SceneGridOf(<<SceneRowI, SceneRowI, SceneRowO, SceneRowO>>),
     locks |-> 9, lines |-> 0],
    [grid |-> SceneGridOf(<<SceneRowHook, SceneRowL, SceneRowL>>),
     locks |-> 5, lines |-> 0],
    [grid |-> SceneGridOf(<<SceneRowPeg, SceneRowPeg, SceneRowPeg, SceneRowPeg>>),
     locks |-> 1, lines |-> 0],
    [grid |-> SceneGridOf(<<>>), locks |-> 100, lines |-> 40],
    [grid |-> SceneGridOf([r \in 1..16 |-> SceneRowPeg]), locks |-> 4,
     lines |-> 0],
    [grid |-> SceneGridOf(<<SceneRowI, SceneRowI, SceneRowO, SceneRowO>>),
     locks |-> 29, lines |-> 8] }

\* the current piece of such a game, with the number of rotations it took:
\* any piece as spawned, and pieces that have fallen in the spawn column
ScenePieces ==
  { [blocks |-> TETROMINOS[k], type |-> tetrominoTypes[k], x |-> 3, y |-> 0,
     rotations |-> 0] : k \in 1..Len(TETROMINOS) }
  \cup
  { [blocks |-> getRotatedShape(I_PIECE), type |-> "I", x |-> 3, y |-> 14,
     rotations |-> 1],
    [blocks |-> I_PIECE, type |-> "I", x |-> 3, y |-> 14, rotations |-> 0],
    [blocks |-> O_PIECE, type |-> "O", x |-> 3, y |-> 13, rotations |-> 0] }

\* the scene as create() leaves it, its GameUI showing the main menu
CreatedScene ==
  [grid |-> initializeGrid,
   gameState |-> [isPlaying |-> FALSE, score |-> 0, level |-> 1, lines |-> 0],
   currentPiece |-> [blocks |-> <<>>, type |-> "null", x |-> 0, y |-> 0],
   debugCounters |-> [spawnAttempts |-> 0, lockPieceCalls |-> 0,
                      clearLinesCalls |-> 0, rotationAttempts |-> 0],
   fallTimer |-> NoTimer,
   isInputLocked |-> FALSE,
   keyboardCallbacks |-> {},
   unlockCalls |-> 0,
   ui |-> "MainMenu"]

\* a game in progress, well after its start
PlayingScene(g, p) ==
  [grid |-> g.grid,
   gameState |-> [isPlaying |-> TRUE,
                  score |-> g.lines * GAME_CONFIG.SCORING.POINTS_PER_LINE,
                  level |-> (g.lines \div 10) + 1,
                  lines |-> g.lines],
   currentPiece |-> [blocks |-> p.blocks, type |-> p.type,
                     x |-> p.x, y |-> p.y],
   debugCounters |-> [spawnAttempts |-> 0, lockPieceCalls |-> g.locks,
                      clearLinesCalls |-> 0,
                      rotationAttempts |-> p.rotations],
   fallTimer |-> [active |-> TRUE,
                  delay |-> GAME_CONFIG.TIMING.FALL_DELAY
                              - (g.lines \div 10) * 100,
                  paused |-> FALSE],
   isInputLocked |-> FALSE,
   keyboardCallbacks |-> Keys,
   unlockCalls |-> 0,
   ui |-> "Playing"]

InitScene ==
  /\ \/ scene = CreatedScene
     \/ /\ \E g \in SceneGrids, p \in ScenePieces : scene = PlayingScene(g, p)
        /\ canPlacePiece(scene, scene.currentPiece.x, scene.currentPiece.y) = TRUE
  /\ grid = <<>>
  /\ call = NoCall
  /\ steps = 0
  /\ RotIdle
  /\ BagIdle
  /\ sm = <<>>
  /\ counts = <<>>
  /\ heap = <<>>

\* variant: the key callback does not ask whether the game is playing
KeyDownNotPlaying ==
  \E key \in Keys, tetrominoIndex \in 0..(Len(TETROMINOS) - 1) :
    LET r == IF /\ key \in scene.keyboardCallbacks
                /\ ~scene.isInputLocked
               THEN keyMappings(scene, key, tetrominoIndex)
               ELSE NotLocked(scene)
    IN  /\ steps < MaxEvents
        /\ scene' = r.scene
        /\ call' = [fn |-> "keydown", key |-> key, before |-> scene,
                    locked |-> r.locked, merged |-> r.merged,
                    linesCleared |-> r.linesCleared]
        /\ steps' = steps + 1
        /\ UNCHANGED <<grid, sm, counts, heap>>
        /\ UNCHANGED rotVars
        /\ UNCHANGED bagVars

\* a key press: the callback runs the key's action while the game is
\* playing and the input is not locked
KeyDown ==
  \E key \in Keys, tetrominoIndex \in 0..(Len(TETROMINOS) - 1) :
    LET r == IF /\ key \in scene.keyboardCallbacks
                /\ scene.gameState.isPlaying
                /\ ~scene.isInputLocked
               THEN keyMappings(scene, key, tetrominoIndex)
               ELSE NotLocked(scene)
    IN  /\ steps < MaxEvents
        /\ scene' = r.scene
        /\ call' = [fn |-> "keydown", key |-> key, before |-> scene,
                    locked |-> r.locked, merged |-> r.merged,
                    linesCleared |-> r.linesCleared]
        /\ steps' = steps + 1
        /\ UNCHANGED <<grid, sm, counts, heap>>
        /\ UNCHANGED rotVars
        /\ UNCHANGED bagVars

\* a tick of the fall timer: the callback of startFallTimer
FallTick ==
  \E tetrominoIndex \in 0..(Len(TETROMINOS) - 1) :
    LET r == IF scene.gameState.isPlaying
               THEN movePiece(scene, 0, 1, tetrominoIndex)
               ELSE NotLocked(scene)
    IN  /\ steps < MaxEvents
        /\ scene.fallTimer.active
        /\ ~scene.fallTimer.paused
        /\ scene' = r.scene
        /\ call' = [fn |-> "fallTick", key |-> "", before |-> scene,
                    locked |-> r.locked, merged |-> r.merged,
                    linesCleared |-> r.linesCleared]
        /\ steps' = steps + 1
        /\ UNCHANGED <<grid, sm, counts, heap>>
        /\ UNCHANGED rotVars
        /\ UNCHANGED bagVars

\* the delayed call of startGameplay runs, 1.5 s after the start
InputUnlock ==
  /\ steps < MaxEvents
  /\ scene.unlockCalls > 0
  /\ scene' = [scene EXCEPT !.isInputLocked = FALSE, !.unlockCalls = @ - 1]
  /\ call' = [fn |-> "inputUnlock", key |-> "", before |-> scene,
              locked |-> FALSE, merged |-> <<>>, linesCleared |-> 0]
  /\ steps' = steps + 1
  /\ UNCHANGED <<grid, sm, counts, heap>>
  /\ UNCHANGED rotVars
  /\ UNCHANGED bagVars

\* what the handler of a GameUI event leaves
Handled(event, sc) ==
  /\ steps < MaxEvents
  /\ scene' = sc
  /\ call' = [fn |-> event, key |-> "", before |-> scene,
              locked |-> FALSE, merged |-> <<>>, linesCleared |-> 0]
  /\ steps' = steps + 1
  /\ UNCHANGED <<grid, sm, counts, heap>>
  /\ UNCHANGED rotVars
  /\ UNCHANGED bagVars

\* START on the main menu, or ENTER while it shows
GameUI_startGame ==
  \E tetrominoIndex \in 0..(Len(TETROMINOS) - 1) :
    /\ scene.ui = "MainMenu"
    /\ Handled("gameStart",
               startGameplay([scene EXCEPT !.ui = "Playing"], tetrominoIndex))

\* ESC while playing
GameUI_pauseGame ==
  /\ scene.ui = "Playing"
  /\ Handled("gamePause", pauseGameplay([scene EXCEPT !.ui = "Paused"]))

\* RESUME on the pause overlay, or ESC while it shows
GameUI_resumeGame ==
  /\ scene.ui = "Paused"
  /\ Handled("gameResume", resumeGameplay([scene EXCEPT !.ui = "Playing"]))

\* RESTART on the pause overlay, RETRY on the game-over overlay
GameUI_restartGame ==
  \E tetrominoIndex \in 0..(Len(TETROMINOS) - 1) :
    /\ scene.ui \in {"Paused", "GameOver"}
    /\ Handled("gameRestart",
               [restartGame(scene, tetrominoIndex) EXCEPT !.ui = "Playing"])

\* QUIT on the pause overlay, MAIN MENU on the game-over overlay
GameUI_goToMainMenu ==
  /\ scene.ui \in {"Paused", "GameOver"}
  /\ Handled("gameStop", stopGameplay([scene EXCEPT !.ui = "MainMenu"]))

NextScene ==
  \/ KeyDown
  \/ FallTick
  \/ InputUnlock
  \/ GameUI_startGame
  \/ GameUI_pauseGame
  \/ GameUI_resumeGame
  \/ GameUI_restartGame
  \/ GameUI_goToMainMenu

SpecScene == InitScene /\ [][NextScene]_vars

\* ------------------------------------------------------------------------
\* class ScoreManager of scoreAndLevel.ts and of
\* assets/sounds/soundAndEffect.ts.  A ScoreManager is a record of its
\* fields config, score, level and totalLinesCleared, and of the module
\* whose class it is.  A scoreTable is a function from the counts it has
\* an entry for.  A number that need not be whole is a fraction
\* [num, den] in lowest terms.

RECURSIVE Gcd(_, _)
Gcd(a, b) == IF b = 0 THEN a ELSE Gcd(b, a % b)

RECURSIVE IntPow(_, _)
IntPow(b, e) == IF e = 0 THEN 1 ELSE b * IntPow(b, e - 1)

\* Math.pow(0.9, e)
PowNineTenths(e) ==
  IF e >= 0 THEN [num |-> IntPow(9, e), den |-> IntPow(10, e)]
  ELSE [num |-> IntPow(10, 0 - e), den |-> IntPow(9, 0 - e)]

\* the product of a whole number k >= 0 and a fraction
Times(k, q) ==
  LET g == Gcd(q.den, k)
  IN  [num |-> (k \div g) * q.num, den |-> q.den \div g]

\* new ScoreManager(config), of either module
ScoreManager_new(module, config) ==
  [module |-> module, config |-> config, score |-> config.initialScore,
   level |-> config.initialLevel, totalLinesCleared |-> 0]

\* variant: the level is computed before the count is added
ScoreManager_clearLinesStaleLevel(m, count) ==
  [m EXCEPT
     !.score = IF count \in DOMAIN m.config.scoreTable
                 THEN @ + m.config.scoreTable[count] ELSE @,
     !.totalLinesCleared = @ + count,
     !.level = m.config.initialLevel
                 + (m.totalLinesCleared \div m.config.linesPerLevel)]

\* variant: the table entry replaces the score
ScoreManager_clearLinesSetsScore(m, count) ==
  [m EXCEPT
     !.score = IF count \in DOMAIN m.config.scoreTable
                 THEN m.config.scoreTable[count] ELSE @,
     !.totalLinesCleared = @ + count,
     !.level = m.config.initialLevel
                 + ((m.totalLinesCleared + count) \div m.config.linesPerLevel)]

\* ScoreManager.clearLines of scoreAndLevel.ts
ScoreManager_clearLines(m, count) ==
  LET scored == IF count \in DOMAIN m.config.scoreTable
                  THEN [m EXCEPT !.score = @ + m.config.scoreTable[count]]
                  ELSE m
      counted == [scored EXCEPT !.totalLinesCleared = @ + count]
  IN  [counted EXCEPT
         !.level = counted.config.initialLevel
                     + (counted.totalLinesCleared \div counted.config.linesPerLevel)]

\* ScoreManager.clearLines of soundAndEffect.ts
SoundScoreManager_clearLines(m, count) ==
  LET scoreToAdd == IF /\ count \in DOMAIN m.config.scoreTable
                       /\ m.config.scoreTable[count] # 0
                      THEN m.config.scoreTable[count] ELSE 0
      scored == [m EXCEPT !.score = @ + scoreToAdd]
      counted == [scored EXCEPT !.totalLinesCleared = @ + count]
  IN  [counted EXCEPT
         !.level = counted.config.initialLevel
                     + (counted.totalLinesCleared \div counted.config.linesPerLevel)]

\* ScoreManager.getDropInterval of scoreAndLevel.ts
ScoreManager_getDropInterval(m) ==
  Times(m.config.baseDropInterval, PowNineTenths(m.level - 1))

\* ScoreManager.getDropInterval of soundAndEffect.ts
SoundScoreManager_getDropInterval(m) ==
  Times(m.config.baseDropInterval, PowNineTenths(m.level - 1))

\* ------------------------------------------------------------------------
\* A ScoreManager and its caller

\* how many clearLines calls one behaviour makes
MaxCalls == 3

\* the highest level a behaviour reaches
MaxLevel == 8

\* a table with an entry for each of 1..4 lines
StandardTable == (1 :> 100) @@ (2 :> 300) @@ (3 :> 500) @@ (4 :> 800)

\* a table without an entry for 2 and 3 lines, with an entry of 0
SparseTable == (0 :> 0) @@ (1 :> 40) @@ (4 :> 1200)

\* a table with a negative entry
PenaltyTable == (1 :> -50) @@ (4 :> 400)

ScoreConfigs ==
  [initialScore : {0},
   scoreTable : {StandardTable, SparseTable, PenaltyTable},
   initialLevel : {1, 3},
   linesPerLevel : {1, 10},
   baseDropInterval : {1000, 200}]

\* the counts a caller passes
LineCounts == {-1, 0, 1, 2, 4, 5}

InitScore ==
  /\ sm \in {ScoreManager_new(module, config) :
               module \in {"scoreAndLevel", "soundAndEffect"},
               config \in ScoreConfigs}
  /\ counts = <<>>
  /\ call = NoCall
  /\ steps = 0
  /\ grid = <<>>
  /\ RotIdle
  /\ BagIdle
  /\ scene = <<>>
  /\ heap = <<>>

ScoreClearLinesCall ==
  \E count \in LineCounts :
    LET next == IF sm.module = "scoreAndLevel"
                  THEN ScoreManager_clearLines(sm, count)
                  ELSE SoundScoreManager_clearLines(sm, count)
    IN  /\ Len(counts) < MaxCalls
        /\ next.level <= MaxLevel
        /\ sm' = next
        /\ counts' = Append(counts, count)
        /\ call' = [fn |-> "ScoreManager.clearLines", count |-> count,
                    before |-> sm]
        /\ UNCHANGED <<grid, steps, scene, heap>>
        /\ UNCHANGED rotVars
        /\ UNCHANGED bagVars

GetDropIntervalCall ==
  /\ call.fn # "ScoreManager.getDropInterval"
  /\ call' = [fn |-> "ScoreManager.getDropInterval", before |-> sm,
              ret |-> IF sm.module = "scoreAndLevel"
                        THEN ScoreManager_getDropInterval(sm)
                        ELSE SoundScoreManager_getDropInterval(sm)]
  /\ UNCHANGED <<sm, counts, grid, steps, scene, heap>>
  /\ UNCHANGED rotVars
  /\ UNCHANGED bagVars

NextScore ==
  \/ ScoreClearLinesCall
  \/ GetDropIntervalCall

SpecScore == InitScore /\ [][NextScore]_vars

\* ------------------------------------------------------------------------
\* rotation module: attemptRotationSRS

SRS_WALL_KICK_DATA ==
  [standard |->
     ("0->R" :> << <<0, 0>>, <<-1, 0>>, <<-1, 1>>, <<0, -2>>, <<-1, -2>> >>) @@
     ("R->0" :> << <<0, 0>>, <<1, 0>>, <<1, -1>>, <<0, 2>>, <<1, 2>> >>) @@
     ("R->2" :> << <<0, 0>>, <<1, 0>>, <<1, -1>>, <<0, 2>>, <<1, 2>> >>) @@
     ("2->R" :> << <<0, 0>>, <<-1, 0>>, <<-1, 1>>, <<0, -2>>, <<-1, -2>> >>) @@
     ("2->L" :> << <<0, 0>>, <<1, 0>>, <<1, 1>>, <<0, -2>>, <<1, -2>> >>) @@
     ("L->2" :> << <<0, 0>>, <<-1, 0>>, <<-1, -1>>, <<0, 2>>, <<-1, 2>> >>) @@
     ("L->0" :> << <<0, 0>>, <<-1, 0>>, <<-1, -1>>, <<0, 2>>, <<-1, 2>> >>) @@
     ("0->L" :> << <<0, 0>>, <<1, 0>>, <<1, 1>>, <<0, -2>>, <<1, -2>> >>),
   I |->
     ("0->R" :> << <<0, 0>>, <<-2, 0>>, <<1, 0>>, <<-2, -1>>, <<1, 2>> >>) @@
     ("R->0" :> << <<0, 0>>, <<2, 0>>, <<-1, 0>>, <<2, 1>>, <<-1, -2>> >>) @@
     ("R->2" :> << <<0, 0>>, <<-1, 0>>, <<2, 0>>, <<-1, 2>>, <<2, -1>> >>) @@
     ("2->R" :> << <<0, 0>>, <<1, 0>>, <<-2, 0>>, <<1, -2>>, <<-2, 1>> >>) @@
     ("2->L" :> << <<0, 0>>, <<2, 0>>, <<-1, 0>>, <<2, 1>>, <<-1, -2>> >>) @@
     ("L->2" :> << <<0, 0>>, <<-2, 0>>, <<1, 0>>, <<-2, -1>>, <<1, 2>> >>) @@
     ("L->0" :> << <<0, 0>>, <<1, 0>>, <<-2, 0>>, <<1, -2>>, <<-2, 1>> >>) @@
     ("0->L" :> << <<0, 0>>, <<-1, 0>>, <<2, 0>>, <<-1, 2>>, <<2, -1>> >>)]

\* const rotationStates = ["0", "R", "2", "L"]
rotationStates == <<"0", "R", "2", "L">>

\* `${fromState}->${toState}`; an index outside the array reads undefined
transitionKey(currentRotation, newRotation) ==
  (IF currentRotation \in 0..3 THEN rotationStates[currentRotation + 1]
                               ELSE "undefined")
    \o "->" \o
  (IF newRotation \in 0..3 THEN rotationStates[newRotation + 1]
                           ELSE "undefined")

\* kickData[transitionKey] || [[0, 0]]
kickOffsetsOf(kickData, key) ==
  IF key \in DOMAIN kickData THEN kickData[key] ELSE << <<0, 0>> >>

RECURSIVE srsKickFrom(_, _, _, _, _, _)
\* the loop of attemptRotationSRS, from the k-th offset on: the index of the
\* first offset at which rotated is valid, 0 when the loop ends without
srsKickFrom(g, rotated, offsetX, offsetY, kickOffsets, k) ==
  IF k > Len(kickOffsets) THEN 0
  ELSE IF isPositionValid(g, rotated, offsetX + kickOffsets[k][1],
                          offsetY + kickOffsets[k][2])
    THEN k
    ELSE srsKickFrom(g, rotated, offsetX, offsetY, kickOffsets, k + 1)

\* variant: the table of the standard pieces is used for every piece
attemptRotationSRSOneTable(g, s, offsetX, offsetY, direction, currentRotation, isIPiece) ==
  LET rotated == rotateShape(s, direction)
      newRotation == IF direction = "clockwise" THEN (currentRotation + 1) % 4
                                                ELSE (currentRotation + 3) % 4
      kickOffsets == kickOffsetsOf(SRS_WALL_KICK_DATA.standard,
                                   transitionKey(currentRotation, newRotation))
      kick == srsKickFrom(g, rotated, offsetX, offsetY, kickOffsets, 1)
  IN  IF kick # 0
        THEN [rotated |-> rotated, x |-> offsetX + kickOffsets[kick][1],
              y |-> offsetY + kickOffsets[kick][2], valid |-> TRUE,
              newRotation |-> newRotation]
        ELSE [rotated |-> s, x |-> offsetX, y |-> offsetY, valid |-> FALSE,
              newRotation |-> currentRotation]

\* variant: a failed rotation reports the rotation state it aimed at
attemptRotationSRSKeepsTarget(g, s, offsetX, offsetY, direction, currentRotation, isIPiece) ==
  LET rotated == rotateShape(s, direction)
      newRotation == IF direction = "clockwise" THEN (currentRotation + 1) % 4
                                                ELSE (currentRotation + 3) % 4
      kickData == IF isIPiece THEN SRS_WALL_KICK_DATA.I
                              ELSE SRS_WALL_KICK_DATA.standard
      kickOffsets == kickOffsetsOf(kickData,
                                   transitionKey(currentRotation, newRotation))
      kick == srsKickFrom(g, rotated, offsetX, offsetY, kickOffsets, 1)
  IN  IF kick # 0
        THEN [rotated |-> rotated, x |-> offsetX + kickOffsets[kick][1],
              y |-> offsetY + kickOffsets[kick][2], valid |-> TRUE,
              newRotation |-> newRotation]
        ELSE [rotated |-> s, x |-> offsetX, y |-> offsetY, valid |-> FALSE,
              newRotation |-> newRotation]

\* variant: a counter-clockwise turn steps the rotation state forward
attemptRotationSRSStepsForward(g, s, offsetX, offsetY, direction, currentRotation, isIPiece) ==
  LET rotated == rotateShape(s, direction)
      newRotation == (currentRotation + 1) % 4
      kickData == IF isIPiece THEN SRS_WALL_KICK_DATA.I
                              ELSE SRS_WALL_KICK_DATA.standard
      kickOffsets == kickOffsetsOf(kickData,
                                   transitionKey(currentRotation, newRotation))
      kick == srsKickFrom(g, rotated, offsetX, offsetY, kickOffsets, 1)
  IN  IF kick # 0
        THEN [rotated |-> rotated, x |-> offsetX + kickOffsets[kick][1],
              y |-> offsetY + kickOffsets[kick][2], valid |-> TRUE,
              newRotation |-> newRotation]
        ELSE [rotated |-> s, x |-> offsetX, y |-> offsetY, valid |-> FALSE,
              newRotation |-> currentRotation]

attemptRotationSRS(g, s, offsetX, offsetY, direction, currentRotation, isIPiece) ==
  LET rotated == rotateShape(s, direction)
      newRotation == IF direction = "clockwise" THEN (currentRotation + 1) % 4
                                                ELSE (currentRotation + 3) % 4
      kickData == IF isIPiece THEN SRS_WALL_KICK_DATA.I
                              ELSE SRS_WALL_KICK_DATA.standard
      kickOffsets == kickOffsetsOf(kickData,
                                   transitionKey(currentRotation, newRotation))
      kick == srsKickFrom(g, rotated, offsetX, offsetY, kickOffsets, 1)
  IN  IF kick # 0
        THEN [rotated |-> rotated, x |-> offsetX + kickOffsets[kick][1],
              y |-> offsetY + kickOffsets[kick][2], valid |-> TRUE,
              newRotation |-> newRotation]
        ELSE [rotated |-> s, x |-> offsetX, y |-> offsetY, valid |-> FALSE,
              newRotation |-> currentRotation]

\* ------------------------------------------------------------------------
\* The rotation functions on the arrays of their caller.  heap holds the
\* arrays that exist; an array is referred to by its index in heap.  A
\* function is given references and leaves a heap: the arrays it was given
\* as it leaves them, followed by the arrays it built.

\* variant: the turn is written into the array passed in
rotateShapeInPlace(h, s, direction) ==
  [heap |-> [h EXCEPT ![s] = rotateShape(h[s], direction)], ret |-> s]

\* rotateShape: rotated is a new array, and the only array written to
rotateShapeOn(h, s, direction) ==
  [heap |-> Append(h, rotateShape(h[s], direction)), ret |-> Len(h) + 1]

\* attemptRotation: rotated is the array rotateShape built; the result of a
\* failed rotation refers to the array passed in
attemptRotationOn(h, g, s, offsetX, offsetY, direction) ==
  LET built == rotateShapeOn(h, s, direction)
      r == attemptRotation(h[g], h[s], offsetX, offsetY, direction)
  IN  [heap |-> built.heap,
       ret |-> [r EXCEPT !.rotated = IF r.valid THEN built.ret ELSE s]]

\* attemptRotationSRS, likewise
attemptRotationSRSOn(h, g, s, offsetX, offsetY, direction, currentRotation, isIPiece) ==
  LET built == rotateShapeOn(h, s, direction)
      r == attemptRotationSRS(h[g], h[s], offsetX, offsetY, direction,
                              currentRotation, isIPiece)
  IN  [heap |-> built.heap,
       ret |-> [r EXCEPT !.rotated = IF r.valid THEN built.ret ELSE s]]

\* the pieces whose rotations are attempted
SrsPieces == {I_PIECE, T_PIECE, J_PIECE}

RECURSIVE Rotated(_, _)
\* s after k clockwise turns
Rotated(s, k) == IF k = 0 THEN s ELSE Rotated(rotateShape(s, "clockwise"), k - 1)

\* the caller holds a board (reference 1) and a piece in one of its four
\* rotation states (reference 2)
InitSRS ==
  /\ heap \in {<<b, Rotated(p, k)>> : b \in QueryBoards, p \in SrsPieces,
                                     k \in 0..3}
  /\ call = NoCall
  /\ steps = 0
  /\ grid = <<>>
  /\ RotIdle
  /\ BagIdle
  /\ scene = <<>>
  /\ sm = <<>>
  /\ counts = <<>>

RotateShapeOnCall ==
  \E d \in Directions :
    LET r == rotateShapeOn(heap, 2, d)
    IN  /\ call.fn = "none"
        /\ heap' = r.heap
        /\ call' = [fn |-> "rotateShape", shape |-> 2, direction |-> d,
                    before |-> heap, ret |-> r.ret]
        /\ UNCHANGED <<grid, steps, scene, sm, counts>>
        /\ UNCHANGED rotVars
        /\ UNCHANGED bagVars

AttemptRotationOnCall ==
  \E x \in QueryXs, y \in QueryYs, d \in Directions :
    LET r == attemptRotationOn(heap, 1, 2, x, y, d)
    IN  /\ call.fn = "none"
        /\ heap' = r.heap
        /\ call' = [fn |-> "attemptRotation", grid |-> 1, shape |-> 2,
                    x |-> x, y |-> y, direction |-> d, before |-> heap,
                    ret |-> r.ret]
        /\ UNCHANGED <<grid, steps, scene, sm, counts>>
        /\ UNCHANGED rotVars
        /\ UNCHANGED bagVars

\* the caller passes the rotation state its piece is in
AttemptRotationSRSCall ==
  \E x \in QueryXs, y \in QueryYs, d \in Directions,
     currentRotation \in 0..3, isIPiece \in BOOLEAN :
    LET r == attemptRotationSRSOn(heap, 1, 2, x, y, d, currentRotation, isIPiece)
    IN  /\ call.fn = "none"
        /\ \E p \in SrsPieces : heap[2] = Rotated(p, currentRotation)
        /\ heap' = r.heap
        /\ call' = [fn |-> "attemptRotationSRS", grid |-> 1, shape |-> 2,
                    x |-> x, y |-> y, direction |-> d,
                    currentRotation |-> currentRotation,
                    isIPiece |-> isIPiece, before |-> heap, ret |-> r.ret]
        /\ UNCHANGED <<grid, steps, scene, sm, counts>>
        /\ UNCHANGED rotVars
        /\ UNCHANGED bagVars

NextSRS ==
  \/ RotateShapeOnCall
  \/ AttemptRotationOnCall
  \/ AttemptRotationSRSCall

SpecSRS == InitSRS /\ [][NextSRS]_vars

\* ------------------------------------------------------------------------
\* A caller that turns one piece by attemptRotationSRS again and again and
\* adopts what each call returns.  orig is the catalog shape of the piece;
\* call.ret holds the shape, the position and the rotation state the caller
\* has adopted; nCW and nCCW count the calls in each direction.

\* where the piece is when the first call is made
TurnStarts == {<<0 - 1, 0>>, <<3, 0>>, <<3, GRID_HEIGHT - 4>>, <<7, GRID_HEIGHT - 3>>}

InitTurns ==
  /\ grid \in {BoardOf(<<>>), WellBoard}
  /\ orig \in {TETROMINOS[k] : k \in 1..Len(TETROMINOS)}
  /\ shape = orig
  /\ \E at \in TurnStarts :
       call = [fn |-> "new", direction |-> "", isIPiece |-> FALSE,
               before |-> <<>>,
               ret |-> [rotated |-> orig, x |-> at[1], y |-> at[2],
                        valid |-> TRUE, newRotation |-> 0]]
  /\ nCW = 0
  /\ nCCW = 0
  /\ nTet = 0
  /\ steps = 0
  /\ BagIdle
  /\ ObjIdle

AttemptRotationSRSTurn ==
  \E d \in Directions, isIPiece \in BOOLEAN :
    LET r == attemptRotationSRS(grid, shape, call.ret.x, call.ret.y, d,
                                call.ret.newRotation, isIPiece)
    IN  /\ nCW + nCCW < MaxRot
        /\ shape' = r.rotated
        /\ call' = [fn |-> "attemptRotationSRS", direction |-> d,
                    isIPiece |-> isIPiece, before |-> call.ret, ret |-> r]
        /\ nCW' = IF d = "clockwise" THEN nCW + 1 ELSE nCW
        /\ nCCW' = IF d = "clockwise" THEN nCCW ELSE nCCW + 1
        /\ UNCHANGED <<grid, steps, orig, nTet>>
        /\ UNCHANGED objVars
        /\ UNCHANGED bagVars

NextTurns == AttemptRotationSRSTurn

SpecTurns == InitTurns /\ [][NextTurns]_vars

\* ------------------------------------------------------------------------
\* drop module (part_000): hardDrop and calculateGhostPosition, one
\* iteration of their while loops at a time.  call holds the function that
\* runs, where it is (pc), the column offset, the row offset it was given
\* (start), config.offsetY, ghostY, dropDistance, the grid before the call
\* and the value returned.

\* shapes with at least one occupied cell
DropShapes == QueryShapes \cup {COLUMN4}

DropXs == {0 - 1, 0, 3, 5, 8}

DropYs == {0 - 2, 0, GRID_HEIGHT - 6, GRID_HEIGHT - 3}

InitDrop ==
  /\ grid \in QueryBoards
  /\ shape \in DropShapes
  /\ \E fn \in {"hardDrop", "calculateGhostPosition"},
        offsetX \in DropXs, offsetY \in DropYs :
       call = [fn |-> fn, pc |-> "while", offsetX |-> offsetX,
               start |-> offsetY, offsetY |-> offsetY, ghostY |-> offsetY,
               dropDistance |-> 0, before |-> grid, ret |-> 0]
  /\ steps = 0
  /\ orig = <<>>
  /\ nCW = 0
  /\ nCCW = 0
  /\ nTet = 0
  /\ BagIdle
  /\ ObjIdle

DropIdle ==
  /\ UNCHANGED <<steps, shape, orig, nCW, nCCW, nTet>>
  /\ UNCHANGED objVars
  /\ UNCHANGED bagVars

\* variant: the loop asks whether the row the piece is in is valid
HardDropLoopTestsOwnRow ==
  /\ call.fn = "hardDrop"
  /\ call.pc = "while"
  /\ isPositionValid(grid, shape, call.offsetX, call.offsetY)
  /\ call' = [call EXCEPT !.offsetY = @ + 1, !.dropDistance = @ + 1]
  /\ UNCHANGED grid
  /\ DropIdle

\* hardDrop: an iteration of the while loop
HardDropLoop ==
  /\ call.fn = "hardDrop"
  /\ call.pc = "while"
  /\ isPositionValid(grid, shape, call.offsetX, call.offsetY + 1)
  /\ call' = [call EXCEPT !.offsetY = @ + 1, !.dropDistance = @ + 1]
  /\ UNCHANGED grid
  /\ DropIdle

\* hardDrop: the loop ends, placeTetromino, return dropDistance
HardDropPlace ==
  /\ call.fn = "hardDrop"
  /\ call.pc = "while"
  /\ ~isPositionValid(grid, shape, call.offsetX, call.offsetY + 1)
  /\ grid' = placeTetromino(grid, shape, call.offsetX, call.offsetY).grid
  /\ call' = [call EXCEPT !.pc = "done", !.ret = call.dropDistance]
  /\ DropIdle

\* calculateGhostPosition: an iteration of the while loop
GhostLoop ==
  /\ call.fn = "calculateGhostPosition"
  /\ call.pc = "while"
  /\ isPositionValid(grid, shape, call.offsetX, call.ghostY + 1)
  /\ call' = [call EXCEPT !.ghostY = @ + 1]
  /\ UNCHANGED grid
  /\ DropIdle

\* calculateGhostPosition: the loop ends, return ghostY
GhostReturn ==
  /\ call.fn = "calculateGhostPosition"
  /\ call.pc = "while"
  /\ ~isPositionValid(grid, shape, call.offsetX, call.ghostY + 1)
  /\ call' = [call EXCEPT !.pc = "done", !.ret = call.ghostY]
  /\ UNCHANGED grid
  /\ DropIdle

NextDrop ==
  \/ HardDropLoop
  \/ HardDropPlace
  \/ GhostLoop
  \/ GhostReturn

\* a function that was called keeps running
SpecDrop == InitDrop /\ [][NextDrop]_vars /\ WF_vars(NextDrop)

\* ------------------------------------------------------------------------
\* PieceBag and NextHoldManager (nextAndHold.ts)

\* how many pieces one behaviour draws from a PieceBag
MaxDraws == 15

\* how many calls one behaviour makes on a NextHoldManager
MaxHoldCalls == 5

\* the field pieces of a PieceBag
PieceBag_pieces == <<"I", "O", "T", "S", "Z", "J", "L">>

\* the values Math.floor(Math.random() * (i + 1)) of one shuffle, as
\* js[i] for the loop's i = 6 down to 1: each is one of 0..i
Shuffles ==
  {<<j1, j2, j3, j4, j5, j6>> :
     j1 \in 0..1, j2 \in 0..2, j3 \in 0..3, j4 \in 0..4, j5 \in 0..5,
     j6 \in 0..6}

\* a shuffle that puts back one kind over another: bag[i] = bag[j] in
\* place of the swap
RECURSIVE copyFrom(_, _, _)
copyFrom(bag, js, i) ==
  IF i > 0
    THEN copyFrom([bag EXCEPT ![i + 1] = bag[js[i] + 1]], js, i - 1)
    ELSE bag

refillBagCopies(pb, js) ==
  [pb EXCEPT !.bag = copyFrom(PieceBag_pieces, js, Len(PieceBag_pieces) - 1)]

\* the loop of refillBag from index i down to 1: swap bag[i] and bag[j]
RECURSIVE shuffleFrom(_, _, _)
shuffleFrom(bag, js, i) ==
  IF i > 0
    THEN LET j == js[i]
         IN  shuffleFrom([bag EXCEPT ![i + 1] = bag[j + 1],
                                     ![j + 1] = bag[i + 1]], js, i - 1)
    ELSE bag

\* refillBag: a copy of pieces, shuffled in place
refillBag(pb, js) ==
  [pb EXCEPT !.bag = shuffleFrom(PieceBag_pieces, js, Len(PieceBag_pieces) - 1)]

\* new PieceBag(): the bag starts empty
PieceBag_new == [bag |-> <<>>]

\* PieceBag.getNext: refill when the bag is empty, then pop the last piece
PieceBag_getNext(pb, js) ==
  LET filled == IF Len(pb.bag) = 0 THEN refillBag(pb, js) ELSE pb
  IN  [pieceBag |-> [filled EXCEPT !.bag = SubSeq(@, 1, Len(@) - 1)],
       ret |-> filled.bag[Len(filled.bag)]]

\* the random values a getNext call consumes: those of one shuffle when
\* the bag is empty, none otherwise
RandomFor(pb, shuffles) == IF Len(pb.bag) = 0 THEN shuffles ELSE {<<>>}

\* initializeNextQueue: push pieces of the bag until the queue has
\* nextQueueSize of them (at most one refill, as nextQueueSize <= 7)
RECURSIVE initializeNextQueue(_, _)
initializeNextQueue(m, js) ==
  IF Len(m.nextQueue) < m.config.nextQueueSize
    THEN LET r == PieceBag_getNext(m.pieceBag, js)
         IN  initializeNextQueue([m EXCEPT !.nextQueue = Append(@, r.ret),
                                           !.pieceBag = r.pieceBag], js)
    ELSE m

\* new NextHoldManager(config); heldPiece "null" is the source's null
NextHoldManager_new(config, js) ==
  initializeNextQueue([config |-> config, nextQueue |-> <<>>,
                       heldPiece |-> "null", holdUsedThisTurn |-> FALSE,
                       pieceBag |-> PieceBag_new], js)

\* variant: the queue is shifted and nothing is pushed
getNextPieceNoPush(m, js) ==
  [m |-> [m EXCEPT !.nextQueue = Tail(@), !.holdUsedThisTurn = FALSE],
   ret |-> Head(m.nextQueue), threw |-> FALSE]

\* getNextPiece: shift the queue, push a piece of the bag, allow hold again
getNextPiece(m, js) ==
  LET r == PieceBag_getNext(m.pieceBag, js)
  IN  [m |-> [m EXCEPT !.nextQueue = Append(Tail(@), r.ret),
                       !.pieceBag = r.pieceBag,
                       !.holdUsedThisTurn = FALSE],
       ret |-> Head(m.nextQueue), threw |-> FALSE]

getNextQueue(m) == m.nextQueue

\* variant: a swap returns the held piece and keeps it in the slot
holdPieceKeepsHeld(m, currentPiece, js) ==
  IF ~m.config.enableHold
    THEN [m |-> m, ret |-> "", threw |-> TRUE]
    ELSE IF m.holdUsedThisTurn
      THEN [m |-> m, ret |-> "", threw |-> TRUE]
      ELSE LET used == [m EXCEPT !.holdUsedThisTurn = TRUE]
           IN  IF used.heldPiece = "null"
                 THEN getNextPiece([used EXCEPT !.heldPiece = currentPiece], js)
                 ELSE [m |-> used, ret |-> used.heldPiece, threw |-> FALSE]

\* holdPiece: throws when hold is disabled or already used this turn; with
\* an empty slot it stores the piece and returns this.getNextPiece(), with
\* a held piece it swaps
holdPiece(m, currentPiece, js) ==
  IF ~m.config.enableHold
    THEN [m |-> m, ret |-> "", threw |-> TRUE]
    ELSE IF m.holdUsedThisTurn
      THEN [m |-> m, ret |-> "", threw |-> TRUE]
      ELSE LET used == [m EXCEPT !.holdUsedThisTurn = TRUE]
           IN  IF used.heldPiece = "null"
                 THEN getNextPiece([used EXCEPT !.heldPiece = currentPiece], js)
                 ELSE [m |-> [used EXCEPT !.heldPiece = currentPiece],
                       ret |-> used.heldPiece, threw |-> FALSE]

getHeldPiece(m) == m.heldPiece

canHold(m) == m.config.enableHold /\ ~m.holdUsedThisTurn

\* NextHoldManager.reset: empty queue, no held piece, a new bag, refill
NextHoldManager_reset(m, js) ==
  initializeNextQueue([m EXCEPT !.nextQueue = <<>>, !.heldPiece = "null",
                                !.holdUsedThisTurn = FALSE,
                                !.pieceBag = PieceBag_new], js)

\* ------------------------------------------------------------------------
\* Draws from one PieceBag, under every outcome of its shuffles

\* no piece of the group of seven that is being dealt
NoneDealt == [k \in {PieceBag_pieces[i] : i \in 1..Len(PieceBag_pieces)} |-> 0]

\* dealt.n counts the draws; dealt.group counts, kind by kind, the draws of
\* the group of seven the last draw belongs to
InitBag ==
  /\ pieceBag = PieceBag_new
  /\ dealt = [n |-> 0, group |-> NoneDealt]
  /\ nextHold = <<>>
  /\ grid = <<>>
  /\ call = NoCall
  /\ steps = 0
  /\ RotIdle
  /\ ObjIdle

GetNextCall ==
  \E js \in RandomFor(pieceBag, Shuffles) :
    LET r == PieceBag_getNext(pieceBag, js)
    IN  /\ dealt.n < MaxDraws
        /\ pieceBag' = r.pieceBag
        /\ dealt' = [n |-> dealt.n + 1,
                     group |-> IF dealt.n % 7 = 0
                                 THEN [NoneDealt EXCEPT ![r.ret] = 1]
                                 ELSE [dealt.group EXCEPT ![r.ret] = @ + 1]]
        /\ call' = [NoCall EXCEPT !.fn = "getNext", !.ret = r.ret]
        /\ UNCHANGED <<grid, steps, nextHold>>
        /\ UNCHANGED rotVars
        /\ UNCHANGED objVars

NextBag == GetNextCall

SpecBag == InitBag /\ [][NextBag]_vars

\* ------------------------------------------------------------------------
\* Calls on one NextHoldManager

HoldConfigs ==
  {[nextQueueSize |-> n, enableHold |-> e] : n \in {1, 3, 5}, e \in BOOLEAN}

\* the shuffles the manager's bag is let to make: no swap at all (j = i),
\* every swap with index 0
HoldShuffles == {<<1, 2, 3, 4, 5, 6>>, <<0, 0, 0, 0, 0, 0>>}

\* the current pieces the caller passes to holdPiece
HoldPieces == {"T", "I"}

\* call.holdsThisTurn counts the holdPiece calls that returned since the
\* caller last called getNextPiece (or built or reset the manager)
InitHold ==
  /\ \E config \in HoldConfigs, js \in HoldShuffles :
       nextHold = NextHoldManager_new(config, js)
  /\ call = [fn |-> "new", currentPiece |-> "", before |-> <<>>, ret |-> "",
             threw |-> FALSE, holdsThisTurn |-> 0]
  /\ steps = 0
  /\ pieceBag = <<>>
  /\ dealt = <<>>
  /\ grid = <<>>
  /\ RotIdle
  /\ ObjIdle

HoldIdle ==
  /\ steps < MaxHoldCalls
  /\ steps' = steps + 1
  /\ UNCHANGED <<grid, pieceBag, dealt>>
  /\ UNCHANGED rotVars
  /\ UNCHANGED objVars

GetNextPieceCall ==
  \E js \in RandomFor(nextHold.pieceBag, HoldShuffles) :
    LET r == getNextPiece(nextHold, js)
    IN  /\ nextHold' = r.m
        /\ call' = [fn |-> "getNextPiece", currentPiece |-> "",
                    before |-> nextHold, ret |-> r.ret, threw |-> FALSE,
                    holdsThisTurn |-> 0]
        /\ HoldIdle

HoldPieceCall ==
  \E currentPiece \in HoldPieces :
    \E js \in RandomFor(nextHold.pieceBag, HoldShuffles) :
      LET r == holdPiece(nextHold, currentPiece, js)
      IN  /\ nextHold' = r.m
          /\ call' = [fn |-> "holdPiece", currentPiece |-> currentPiece,
                      before |-> nextHold, ret |-> r.ret, threw |-> r.threw,
                      holdsThisTurn |-> IF r.threw THEN call.holdsThisTurn
                                                   ELSE call.holdsThisTurn + 1]
          /\ HoldIdle

ResetCall ==
  \E js \in HoldShuffles :
    /\ nextHold' = NextHoldManager_reset(nextHold, js)
    /\ call' = [fn |-> "reset", currentPiece |-> "", before |-> nextHold,
                ret |-> "", threw |-> FALSE, holdsThisTurn |-> 0]
    /\ HoldIdle

NextHold ==
  \/ GetNextPieceCall
  \/ HoldPieceCall
  \/ ResetCall

SpecHold == InitHold /\ [][NextHold]_vars

\* ------------------------------------------------------------------------
\* Vocabulary of the properties, stated without the program's loops

\* the occupied cells of a shape, as <<row, column>> from 0
Occupied(s) ==
  UNION { { <<r, c>> : c \in {k \in 0..(Len(s[r + 1]) - 1) : s[r + 1][k + 1] # 0} } :
          r \in 0..(Len(s) - 1) }

\* every occupied cell of s at offset (x, y) is on the 10x20 board and on an
\* empty cell of g
Fits(g, s, x, y) ==
  \A rc \in Occupied(s) :
    /\ x + rc[2] >= 0
    /\ x + rc[2] < 10
    /\ y + rc[1] >= 0
    /\ y + rc[1] < 20
    /\ g[y + rc[1] + 1][x + rc[2] + 1] = 0

\* the quarter turn of a square shape, cell by cell
Turned(s, direction) ==
  LET n == Len(s)
  IN  [r \in 1..n |-> [c \in 1..n |->
         IF direction = "clockwise" THEN s[n + 1 - c][r] ELSE s[c][n + 1 - r]]]

\* the column offsets attemptRotation is to try, in order
KickOrder == <<0, 1, -1, 2, -2>>

\* ------------------------------------------------------------------------
\* C1: isPositionValid is false when an occupied cell of the shape is off
\* the board in either axis (rows above the top included) or on a non-zero
\* board cell, and true in every other case.
C1_PositionValid ==
  call.fn = "isPositionValid" =>
    LET occ == Occupied(call.shape)
        outside == \E rc \in occ :
                     \/ call.x + rc[2] < 0
                     \/ call.x + rc[2] >= 10
                     \/ call.y + rc[1] < 0
                     \/ call.y + rc[1] >= 20
        overlap == \E rc \in occ :
                     /\ call.x + rc[2] \in 0..9
                     /\ call.y + rc[1] \in 0..19
                     /\ call.before[call.y + rc[1] + 1][call.x + rc[2] + 1] # 0
    IN  /\ outside => call.ret = FALSE
        /\ overlap => call.ret = FALSE
        /\ (~outside /\ ~overlap) => call.ret = TRUE

\* a call whose only fault is a cell above the top row, and which is refused
C1_Witness ==
  /\ call.fn = "isPositionValid"
  /\ call.ret = FALSE
  /\ \E rc \in Occupied(call.shape) : call.y + rc[1] < 0
  /\ \A rc \in Occupied(call.shape) :
       /\ call.x + rc[2] \in 0..9
       /\ call.y + rc[1] < 20
       /\ call.y + rc[1] >= 0 =>
            call.before[call.y + rc[1] + 1][call.x + rc[2] + 1] = 0

\* C4: when the rotated shape fits neither at the unchanged offset nor at
\* any kick offset, attemptRotation returns valid = false with the shape and
\* the offsets exactly as passed in.
C4_FailureReturnsInputs ==
  (/\ call.fn = "attemptRotation"
   /\ \A k \in 1..Len(KickOrder) :
        ~Fits(call.before, Turned(call.shape, call.direction),
              call.x + KickOrder[k], call.y))
    => call.ret = [rotated |-> call.shape, x |-> call.x, y |-> call.y,
                   valid |-> FALSE]

\* a failed rotation of a shape that the rotation would have changed
C4_Witness ==
  /\ call.fn = "attemptRotation"
  /\ call.ret.valid = FALSE
  /\ Turned(call.shape, call.direction) # call.shape
  /\ Fits(call.before, call.shape, call.x, call.y)

\* C5: attemptRotation returns valid = true with the rotated shape at the
\* first of the column offsets 0, +1, -1, +2, -2 (row unchanged) at which the
\* rotated shape is valid; no later candidate wins over an earlier valid one.
C5_FirstValidKickWins ==
  call.fn = "attemptRotation" =>
    LET turned == Turned(call.shape, call.direction)
        ok(k) == Fits(call.before, turned, call.x + KickOrder[k], call.y)
    IN  \A k \in 1..Len(KickOrder) :
          (ok(k) /\ \A m \in 1..(k - 1) : ~ok(m)) =>
            call.ret = [rotated |-> turned, x |-> call.x + KickOrder[k],
                        y |-> call.y, valid |-> TRUE]

\* a kick of +1 chosen although the kick of -1 would have been valid too
C5_Witness ==
  /\ call.fn = "attemptRotation"
  /\ call.ret.valid
  /\ call.ret.x = call.x + 1
  /\ Fits(call.before, call.ret.rotated, call.x - 1, call.y)

\* a row of ten cells none of which is 0
FullRow(row) == Len(row) = 10 /\ \A c \in 1..10 : row[c] # 0

ZeroRow == <<0, 0, 0, 0, 0, 0, 0, 0, 0, 0>>

NotFull(row) == ~FullRow(row)

\* C2: the clearing step of lockPiece removes exactly the rows that are
\* fully occupied after the merge, keeps the other rows in their order at
\* the bottom, puts as many all-zero rows on top as it removed, and returns
\* that number.
C2_ClearRemovesExactlyFullRows ==
  call.fn = "lockPiece" =>
    LET removed == Cardinality({r \in 1..Len(call.merged) : FullRow(call.merged[r])})
    IN  /\ grid = [i \in 1..removed |-> ZeroRow] \o SelectSeq(call.merged, NotFull)
        /\ call.ret = removed
        /\ call.ret \in 0..20

\* a lock that completes two rows with a row that stays between them
C2_Witness ==
  /\ call.fn = "lockPiece"
  /\ call.ret = 2
  /\ \E r \in 2..(Len(call.merged) - 1) :
       /\ FullRow(call.merged[r - 1])
       /\ ~FullRow(call.merged[r])
       /\ FullRow(call.merged[r + 1])

\* C3: the merge step of lockPiece writes every occupied shape cell that
\* lies on the 10x20 board into its board cell, skips without an error the
\* occupied cells that lie off the board, and leaves every other board cell
\* as it was.
C3_MergeWritesInBoundsCells ==
  call.fn = "lockPiece" =>
    /\ call.threw = FALSE
    /\ Len(call.merged) = Len(call.before)
    /\ \A r \in 0..19 :
         /\ Len(call.merged[r + 1]) = Len(call.before[r + 1])
         /\ \A c \in 0..9 :
              call.merged[r + 1][c + 1] =
                IF <<r - call.y, c - call.x>> \in Occupied(call.shape)
                  THEN call.shape[r - call.y + 1][c - call.x + 1]
                  ELSE call.before[r + 1][c + 1]

\* a lock of a shape that lies partly above the top row: part of it is
\* written (into row 0), part is dropped
C3_Witness ==
  /\ call.fn = "lockPiece"
  /\ \E rc \in Occupied(call.shape) : call.y + rc[1] < 0
  /\ \E rc \in Occupied(call.shape) :
       /\ call.y + rc[1] = 0
       /\ call.x + rc[2] \in 0..9
       /\ call.merged[1][call.x + rc[2] + 1] = call.shape[rc[1] + 1][rc[2] + 1]

C10_NoCompletedRowAfterLock == getCompletedRows(grid) = <<>>

\* the second lock of a sequence has completed and cleared a row
C10_Witness ==
  /\ call.fn = "lockPiece"
  /\ steps = 2
  /\ call.ret >= 1
  /\ \E r \in 1..Len(call.merged) : FullRow(call.merged[r])

\* C6 as amended: for an N x N shape, rotateShape with direction clockwise
\* places the value of input cell (row i, col j) at row j, column N-1-i of
\* the result, for all i, j in 0..N-1.
C6_ClockwiseMapping ==
  (call.fn = "rotateShape" /\ call.direction = "clockwise") =>
    LET n == Len(call.shape)
    IN  /\ Len(call.ret) = n
        /\ \A i \in 0..(n - 1) :
             /\ Len(call.ret[i + 1]) = n
             /\ \A j \in 0..(n - 1) :
                  call.ret[j + 1][(n - 1 - i) + 1] = call.shape[i + 1][j + 1]

\* C6 as stated: the value of input cell (row i, col j) is found at column j,
\* row N-1-i of the result.
C6_AsStated ==
  (call.fn = "rotateShape" /\ call.direction = "clockwise") =>
    LET n == Len(call.shape)
    IN  \A i \in 0..(n - 1) : \A j \in 0..(n - 1) :
          call.ret[(n - 1 - i) + 1][j + 1] = call.shape[i + 1][j + 1]

\* the T piece turned clockwise, as the repository's rotation test expects it
C6_Witness ==
  /\ call.fn = "rotateShape"
  /\ call.direction = "clockwise"
  /\ call.shape = T_PIECE
  /\ call.ret = << <<0, 3, 0, 0>>, <<0, 3, 3, 0>>, <<0, 3, 0, 0>>, <<0, 0, 0, 0>> >>

\* C7: four applications of rotateShape in the same direction, or four of
\* rotateTetromino, give back the original shape cell by cell.
C7_FourTurnsIdentity ==
  (\/ (nCW = 4 /\ nCCW = 0 /\ nTet = 0)
   \/ (nCW = 0 /\ nCCW = 4 /\ nTet = 0)
   \/ (nCW = 0 /\ nCCW = 0 /\ nTet = 4))
    => shape = orig

\* the L piece after four counter-clockwise turns, the last of which
\* changed the shape
C7_Witness ==
  /\ nCW = 0
  /\ nCCW = 4
  /\ nTet = 0
  /\ orig = L_PIECE
  /\ shape = L_PIECE
  /\ call.shape # L_PIECE

\* C8: a clockwise turn followed by a counter-clockwise turn, or the other
\* way round, gives back the original shape.
C8_TurnsAreInverse ==
  (nCW = 1 /\ nCCW = 1 /\ nTet = 0) => shape = orig

\* the S piece turned clockwise and then back
C8_Witness ==
  /\ nCW = 1
  /\ nCCW = 1
  /\ nTet = 0
  /\ call.direction = "counterClockwise"
  /\ orig = S_PIECE
  /\ shape = S_PIECE
  /\ call.shape # S_PIECE

\* a grid of 20 rows of 10 cells
IsBoard(g) == Len(g) = 20 /\ \A r \in 1..20 : Len(g[r]) = 10

\* C11: for every 10x20 board, clearLines and clearLinesOptimized leave the
\* same board and return the same count, also when several adjacent or
\* non-adjacent rows are complete at once.
C11_ClearVariantsAgree ==
  /\ (call.fn = "clearLines" /\ IsBoard(call.before)) =>
       /\ grid = clearLinesOptimized(call.before).grid
       /\ call.ret = clearLinesOptimized(call.before).ret
  /\ (call.fn = "clearLinesOptimized" /\ IsBoard(call.before)) =>
       /\ grid = clearLines(call.before).grid
       /\ call.ret = clearLines(call.before).ret

\* a clearLinesOptimized call on a board with two adjacent completed rows
\* and a third one apart from them, with rows that stay in between and below
C11_Witness ==
  /\ call.fn = "clearLinesOptimized"
  /\ IsBoard(call.before)
  /\ call.ret = 3
  /\ \E r \in 1..16 :
       /\ FullRow(call.before[r])
       /\ FullRow(call.before[r + 1])
       /\ ~FullRow(call.before[r + 2]) /\ call.before[r + 2] # ZeroRow
       /\ FullRow(call.before[r + 3])
       /\ ~FullRow(call.before[r + 4]) /\ call.before[r + 4] # ZeroRow
  /\ grid # call.before
\* the elements of a sequence, as a set
Range(seq) == {seq[k] : k \in 1..Len(seq)}

\* C13: for every board and every list of distinct row indices in any
\* order, removeRows deletes exactly the rows of the original board at those
\* indices, keeps the other rows in their order below as many all-zero rows
\* as it deleted, and returns the number of indices.
C13_RemoveRowsDeletesGivenRows ==
  ( /\ call.fn = "removeRows"
    /\ IsBoard(call.before)
    /\ Range(call.rowIndices) \subseteq 0..19
    /\ Cardinality(Range(call.rowIndices)) = Len(call.rowIndices) ) =>
    LET n == Len(call.rowIndices)
        kept == {r \in 0..19 : r \notin Range(call.rowIndices)}
        \* the number of deleted rows below row r
        below(r) == Cardinality({d \in Range(call.rowIndices) : d > r})
    IN  /\ call.threw = FALSE
        /\ call.ret = n
        /\ IsBoard(grid)
        /\ \A r \in 1..n : grid[r] = ZeroRow
        /\ \A r \in kept : grid[r + below(r) + 1] = call.before[r + 1]
\* the last event of the host scene locked the current piece
SceneLocked == call.fn \in {"keydown", "fallTick"} /\ call.locked

\* C12: in the host scene, after lockPiece/checkAndClearLines no row of the
\* grid is fully occupied and every row that was not fully occupied after
\* the merge is still present in its original order; when the merge leaves
\* the lowest four rows full and the others empty, 4 lines are counted and
\* the grid is left empty.
C12_SceneClearsFullRows ==
  SceneLocked =>
    /\ \A r \in 1..Len(scene.grid) : ~FullRow(scene.grid[r])
    /\ SelectSeq(scene.grid, NotFull)
         = [i \in 1..call.linesCleared |-> ZeroRow]
             \o SelectSeq(call.merged, NotFull)
    /\ ( /\ \A r \in 1..16 : call.merged[r] = ZeroRow
         /\ \A r \in 17..20 : FullRow(call.merged[r]) ) =>
         /\ call.linesCleared = 4
         /\ \A r \in 1..20 : scene.grid[r] = ZeroRow

\* C17: the score the host scene adds for a 4-line clear is strictly
\* greater than 4 times the score it adds for a 1-line clear.
C17_FourLineScoreConvex ==
  (SceneLocked /\ call.linesCleared = 4) =>
    scene.gameState.score - call.before.gameState.score
      > 4 * (updateScore(call.before, 1).gameState.score
               - call.before.gameState.score)
RECURSIVE SumOf(_)
SumOf(seq) == IF seq = <<>> THEN 0 ELSE Head(seq) + SumOf(Tail(seq))

\* the largest whole number q with q * d <= n, for d >= 1
FloorDiv(n, d) == CHOOSE q \in (0 - 100)..100 : q * d <= n /\ n < (q + 1) * d

\* C14: after construction and after any sequence of clearLines calls,
\* totalLinesCleared of a ScoreManager is the sum of the counts passed so
\* far and level is initialLevel + floor(totalLinesCleared / linesPerLevel).
C14_TotalAndLevel ==
  sm # <<>> =>
    /\ sm.totalLinesCleared = SumOf(counts)
    /\ sm.level = sm.config.initialLevel
                    + FloorDiv(sm.totalLinesCleared, sm.config.linesPerLevel)

\* three calls, one of them with a count the table has no entry for, that
\* raise the level by a number that is not the total
C14_Witness ==
  /\ sm # <<>>
  /\ Len(counts) = 3
  /\ \E k \in 1..3 : counts[k] \notin DOMAIN sm.config.scoreTable
  /\ sm.config.linesPerLevel = 10
  /\ sm.totalLinesCleared >= 10
  /\ sm.level = sm.config.initialLevel + 1

\* C15: in a sequence of clearLines calls with non-negative counts, on a
\* ScoreManager whose score-table entries are non-negative and whose
\* linesPerLevel is at least 1, score, totalLinesCleared and level do not
\* decrease from one call to the next.
C15_NonDecreasing ==
  ( /\ call.fn = "ScoreManager.clearLines"
    /\ \A k \in 1..Len(counts) : counts[k] >= 0
    /\ \A n \in DOMAIN sm.config.scoreTable : sm.config.scoreTable[n] >= 0
    /\ sm.config.linesPerLevel >= 1 ) =>
    /\ sm.score >= call.before.score
    /\ sm.totalLinesCleared >= call.before.totalLinesCleared
    /\ sm.level >= call.before.level

\* a third call with non-negative counts that adds to the score, to the
\* total and to the level
C15_Witness ==
  /\ call.fn = "ScoreManager.clearLines"
  /\ Len(counts) = 3
  /\ \A k \in 1..Len(counts) : counts[k] >= 0
  /\ \A n \in DOMAIN sm.config.scoreTable : sm.config.scoreTable[n] >= 0
  /\ sm.score > call.before.score
  /\ sm.totalLinesCleared > call.before.totalLinesCleared
  /\ sm.level > call.before.level

\* C16: getDropInterval returns baseDropInterval * 0.9^(level-1) floored at
\* a minimum interval: at no reachable level is the interval below the
\* minimum.  The minimum is taken to be the one the host scene keeps its
\* fall delay above, 100 ms.
C16_DropIntervalFloored ==
  call.fn = "ScoreManager.getDropInterval" =>
    call.ret.num >= MIN_FALL_DELAY * call.ret.den
\* the names of the four rotation states, by index
StateName == <<"0", "R", "2", "L">>

\* the candidates of the table for the call: the I table if isIPiece, the
\* entry of the transition from the current state to the state one step on
\* (clockwise) or three steps on (counter-clockwise)
SrsTarget == (call.currentRotation
                + (IF call.direction = "clockwise" THEN 1 ELSE 3)) % 4

SrsCandidates ==
  (IF call.isIPiece THEN SRS_WALL_KICK_DATA.I ELSE SRS_WALL_KICK_DATA.standard)
    [StateName[call.currentRotation + 1] \o "->" \o StateName[SrsTarget + 1]]

\* the turned shape of the call fits at the k-th candidate
SrsFits(k) ==
  Fits(call.before[call.grid],
       Turned(call.before[call.shape], call.direction),
       call.x + SrsCandidates[k][1], call.y + SrsCandidates[k][2])

\* C18: attemptRotationSRS aims at rotation index (current+1) mod 4 for
\* clockwise and (current+3) mod 4 for counter-clockwise, tries the
\* candidates of the table entry of that transition (I table if isIPiece,
\* standard table otherwise) in table order, and returns the rotated shape
\* at the first candidate offset that is valid, with valid=true and
\* newRotation the index aimed at.
C18_SrsFirstValidCandidate ==
  call.fn = "attemptRotationSRS" =>
    \A k \in 1..Len(SrsCandidates) :
      (SrsFits(k) /\ \A j \in 1..(k - 1) : ~SrsFits(j)) =>
        /\ call.ret.valid = TRUE
        /\ heap[call.ret.rotated] = Turned(call.before[call.shape], call.direction)
        /\ call.ret.x = call.x + SrsCandidates[k][1]
        /\ call.ret.y = call.y + SrsCandidates[k][2]
        /\ call.ret.newRotation = SrsTarget

\* a rotation of an I piece that succeeds at the fourth candidate, which
\* moves the piece in both axes
C18_Witness ==
  /\ call.fn = "attemptRotationSRS"
  /\ call.isIPiece
  /\ call.before[call.shape] \in {Rotated(I_PIECE, k) : k \in 0..3}
  /\ SrsFits(4)
  /\ \A j \in 1..3 : ~SrsFits(j)
  /\ SrsCandidates[4][1] # 0
  /\ SrsCandidates[4][2] # 0
  /\ call.ret.valid

\* C19: when no candidate of the transition is valid, attemptRotationSRS
\* returns valid=false with the original shape, the original column and row
\* offsets, and newRotation the rotation index passed in.
C19_SrsFailureReturnsInputs ==
  (call.fn = "attemptRotationSRS" /\ \A k \in 1..Len(SrsCandidates) : ~SrsFits(k)) =>
    /\ call.ret.valid = FALSE
    /\ call.ret.rotated = call.shape
    /\ heap[call.ret.rotated] = call.before[call.shape]
    /\ call.ret.x = call.x
    /\ call.ret.y = call.y
    /\ call.ret.newRotation = call.currentRotation

\* a failed rotation of a piece that lies on the board, from a rotation
\* state other than 0
C19_Witness ==
  /\ call.fn = "attemptRotationSRS"
  /\ \A k \in 1..Len(SrsCandidates) : ~SrsFits(k)
  /\ Fits(call.before[call.grid], call.before[call.shape], call.x, call.y)
  /\ call.currentRotation # 0
  /\ call.ret.valid = FALSE

\* C20: attemptRotation and attemptRotationSRS leave the board and the
\* shape passed to them as they were, whether the rotation succeeds in
\* place, succeeds after a kick, or fails; rotateShape returns a newly
\* built shape and leaves its argument as it was.
C20_ArgumentsUntouched ==
  call.fn \in {"rotateShape", "attemptRotation", "attemptRotationSRS"} =>
    /\ \A ref \in 1..Len(call.before) : heap[ref] = call.before[ref]
    /\ call.fn = "rotateShape" =>
         /\ call.ret \notin 1..Len(call.before)
         /\ heap[call.ret] = Turned(call.before[call.shape], call.direction)

\* a rotation that succeeds after a kick and hands back a shape that
\* differs from the one passed in
C20_Witness ==
  /\ call.fn = "attemptRotation"
  /\ call.ret.valid
  /\ call.ret.x # call.x
  /\ call.ret.rotated # call.shape
  /\ heap[call.ret.rotated] # call.before[call.shape]

\* ------------------------------------------------------------------------
\* C21: every shape reached from a catalog shape by rotations is 4x4, has
\* exactly 4 occupied cells, and each of them carries the value of the
\* kind, its catalog index plus 1.
C21_CatalogRotationsKeepCells ==
  \A k \in 0..6 :
    orig = TETROMINOS[k + 1] =>
      /\ Len(shape) = 4
      /\ \A r \in 1..4 : Len(shape[r]) = 4
      /\ Cardinality(Occupied(shape)) = 4
      /\ \A rc \in Occupied(shape) : shape[rc[1] + 1][rc[2] + 1] = k + 1

\* an L piece that was turned both ways and lies differently than at first
C21_Witness ==
  /\ orig = L_PIECE
  /\ nCW >= 1
  /\ nCCW >= 2
  /\ shape # orig
  /\ Cardinality(Occupied(shape)) = 4

\* ------------------------------------------------------------------------
\* the seven kinds in catalog order, and the canonical shape of each kind
KindOrder == <<"I", "O", "T", "S", "Z", "J", "L">>

CanonicalShape ==
  [I |-> << <<0, 0, 0, 0>>, <<1, 1, 1, 1>>, <<0, 0, 0, 0>>, <<0, 0, 0, 0>> >>,
   O |-> << <<0, 0, 0, 0>>, <<0, 2, 2, 0>>, <<0, 2, 2, 0>>, <<0, 0, 0, 0>> >>,
   T |-> << <<0, 0, 0, 0>>, <<0, 3, 0, 0>>, <<3, 3, 3, 0>>, <<0, 0, 0, 0>> >>,
   S |-> << <<0, 0, 0, 0>>, <<0, 4, 4, 0>>, <<4, 4, 0, 0>>, <<0, 0, 0, 0>> >>,
   Z |-> << <<0, 0, 0, 0>>, <<5, 5, 0, 0>>, <<0, 5, 5, 0>>, <<0, 0, 0, 0>> >>,
   J |-> << <<0, 0, 0, 0>>, <<6, 0, 0, 0>>, <<6, 6, 6, 0>>, <<0, 0, 0, 0>> >>,
   L |-> << <<0, 0, 0, 0>>, <<0, 0, 7, 0>>, <<7, 7, 7, 0>>, <<0, 0, 0, 0>> >>]

\* C22: getTetrominoByIndex throws for every index outside 0..6 and returns
\* no shape then; for an index in 0..6 it returns the canonical shape of
\* the kind at that place of I, O, T, S, Z, J, L.
C22_IndexOutsideCatalogThrows ==
  call.fn = "getTetrominoByIndex" =>
    IF call.x >= 0 /\ call.x <= 6
      THEN /\ ~call.threw
           /\ call.ret = CanonicalShape[KindOrder[call.x + 1]]
      ELSE /\ call.threw
           /\ call.ret = <<>>

\* a call with the first index above the catalog
C22_Witness ==
  /\ call.fn = "getTetrominoByIndex"
  /\ call.x = 7
  /\ call.threw

\* ------------------------------------------------------------------------
\* the board cells, as <<row, column>> from 0, that the occupied cells of s
\* take at offset (x, y)
Covered(s, x, y) == { <<y + rc[1], x + rc[2]>> : rc \in Occupied(s) }

\* the last call locked a shape covering column 5 of rows 16..19 on a board
\* whose row 19 was full except column 5 and whose other rows were empty
C23_Scenario ==
  /\ call.fn = "lockPiece"
  /\ IsBoard(call.before)
  /\ \A r \in 0..18 : call.before[r + 1] = ZeroRow
  /\ \A c \in 0..9 : (call.before[20][c + 1] # 0) <=> (c # 5)
  /\ Covered(call.shape, call.x, call.y) = { <<r, 5>> : r \in 16..19 }

C25_PlaceAllOrNothing ==
  call.fn = "placeTetromino" =>
    IF ~isPositionValid(call.before, call.shape, call.x, call.y)
      THEN /\ call.ret = FALSE
           /\ grid = call.before
      ELSE /\ call.ret = TRUE
           /\ Len(grid) = Len(call.before)
           /\ \A r \in 1..Len(grid) :
                /\ Len(grid[r]) = Len(call.before[r])
                /\ \A c \in 1..Len(grid[r]) :
                     grid[r][c] =
                       IF <<r - 1, c - 1>> \in Covered(call.shape, call.x, call.y)
                         THEN call.shape[r - call.y][c - call.x]
                         ELSE call.before[r][c]

\* a refused placement of a shape of which one cell lies on a block and
\* another on an empty cell of the board
C25_Witness ==
  /\ call.fn = "placeTetromino"
  /\ call.ret = FALSE
  /\ \E rc \in Covered(call.shape, call.x, call.y) :
       /\ rc[1] \in 0..19
       /\ rc[2] \in 0..9
       /\ call.before[rc[1] + 1][rc[2] + 1] # 0
  /\ \E rc \in Covered(call.shape, call.x, call.y) :
       /\ rc[1] \in 0..19
       /\ rc[2] \in 0..9
       /\ call.before[rc[1] + 1][rc[2] + 1] = 0
       /\ grid[rc[1] + 1][rc[2] + 1] = 0

\* ------------------------------------------------------------------------
\* C26: the host scene's game ends (isPlaying becomes false through
\* gameOver) only when a newly spawned piece cannot be placed at the spawn
\* position: a key press or a timer tick that ends the game has locked the
\* current piece and left a new piece at x = 3, y = 0 that does not fit.
C26_GameOverOnlyWhenSpawnBlocked ==
  ( /\ call.fn \in {"keydown", "fallTick"}
    /\ call.before.gameState.isPlaying
    /\ ~scene.gameState.isPlaying ) =>
    /\ call.locked
    /\ scene.currentPiece.x = 3
    /\ scene.currentPiece.y = 0
    /\ ~Fits(scene.grid, scene.currentPiece.blocks, 3, 0)

\* ------------------------------------------------------------------------
\* C27: the host's grid is created with all cells 0, and right after the
\* handling of a gameStart, gameRestart or gameStop event every one of its
\* 20 x 10 cells is 0.
C27_GridEmptyAtStartRestartStop ==
  ( \/ scene = CreatedScene
    \/ call.fn \in {"gameStart", "gameRestart", "gameStop"} ) =>
    /\ Len(scene.grid) = 20
    /\ \A r \in 1..20 :
         /\ Len(scene.grid[r]) = 10
         /\ \A c \in 1..10 : scene.grid[r][c] = 0

\* a restart or a stop of a game that had blocks on its grid
C27_Witness ==
  /\ call.fn \in {"gameRestart", "gameStop"}
  /\ \E r \in 1..20 : \E c \in 1..10 : call.before.grid[r][c] # 0
  /\ \A r \in 1..20 : \A c \in 1..10 : scene.grid[r][c] = 0

\* ------------------------------------------------------------------------
\* C28: the host scene's rotation resolves wall kicks in the order of
\* attemptRotation: whenever the UP key rotates a validly placed current
\* piece, rotatePiece leaves the shape and the column and row offset that
\* attemptRotation(grid, shape, x, y, clockwise) returns.
C28_HostRotationAsAttemptRotation ==
  ( /\ call.fn = "keydown"
    /\ call.key = "UP"
    /\ "UP" \in call.before.keyboardCallbacks
    /\ call.before.gameState.isPlaying
    /\ ~call.before.isInputLocked
    /\ call.before.currentPiece.blocks # <<>>
    /\ Fits(call.before.grid, call.before.currentPiece.blocks,
            call.before.currentPiece.x, call.before.currentPiece.y) ) =>
    LET r == attemptRotation(call.before.grid, call.before.currentPiece.blocks,
                             call.before.currentPiece.x,
                             call.before.currentPiece.y, "clockwise")
    IN  /\ scene.currentPiece.blocks = r.rotated
        /\ scene.currentPiece.x = r.x
        /\ scene.currentPiece.y = r.y

\* ------------------------------------------------------------------------
\* C29: hold can be used only once per turn: after a holdPiece call that
\* returned, with an empty hold slot or not, canHold() is false and any
\* further holdPiece call throws, and no second holdPiece call returns
\* before the caller calls getNextPiece; holdPiece throws whenever
\* enableHold is false.
C29_HoldOncePerTurn ==
  call.fn = "holdPiece" =>
    /\ ~call.before.config.enableHold => call.threw
    /\ ~call.threw =>
         /\ ~canHold(nextHold)
         /\ \A p \in HoldPieces, js \in HoldShuffles :
              holdPiece(nextHold, p, js).threw
    /\ call.holdsThisTurn <= 1

\* ------------------------------------------------------------------------
\* the kinds a PieceBag deals
Kinds == {"I", "O", "T", "S", "Z", "J", "L"}

\* C30: under every outcome of the shuffles, the draws 7k+1 to 7k+7 of one
\* PieceBag hold each of the seven kinds exactly once (and no kind twice
\* while the group is still being dealt).
C30_BagsOfSeven ==
  dealt # <<>> =>
    /\ DOMAIN dealt.group = Kinds
    /\ \A k \in Kinds : dealt.group[k] \in {0, 1}
    /\ Cardinality({k \in Kinds : dealt.group[k] = 1})
         = (IF dealt.n = 0 THEN 0 ELSE ((dealt.n - 1) % 7) + 1)
    /\ (dealt.n > 0 /\ dealt.n % 7 = 0) =>
         \A k \in Kinds : dealt.group[k] = 1

\* the second group of seven is dealt, and its last piece is one that only
\* a shuffle brings to the front of the bag
C30_Witness ==
  /\ dealt # <<>>
  /\ dealt.n = 14
  /\ \A k \in Kinds : dealt.group[k] = 1
  /\ call.fn = "getNext"
  /\ call.ret = "T"

\* ------------------------------------------------------------------------
\* C31: the handler of a gameRestart event leaves a freshly started game:
\* isPlaying is true, a fall timer is active, score, level and lines are
\* 0, 1 and 0, the grid is empty and the current piece is a catalog piece
\* at the spawn position x = 3, y = 0.
C31_RestartStartsFreshGame ==
  call.fn = "gameRestart" =>
    /\ scene.gameState.isPlaying
    /\ scene.fallTimer.active
    /\ scene.gameState.score = 0
    /\ scene.gameState.level = 1
    /\ scene.gameState.lines = 0
    /\ \A r \in 1..20 : scene.grid[r] = ZeroRow
    /\ Len(scene.grid) = 20
    /\ \E k \in 1..7 : scene.currentPiece.blocks = TETROMINOS[k]
    /\ scene.currentPiece.x = 3
    /\ scene.currentPiece.y = 0

\* ------------------------------------------------------------------------
\* C32: whenever the host scene is playing and has a current piece, every
\* occupied cell of the piece is inside the 10x20 grid on a cell that
\* holds 0.
C32_ActivePieceFits ==
  (scene # <<>> /\ scene.gameState.isPlaying
                /\ scene.currentPiece.blocks # <<>>) =>
    Fits(scene.grid, scene.currentPiece.blocks,
         scene.currentPiece.x, scene.currentPiece.y)

\* a piece was locked into a grid that keeps blocks, a new piece was
\* spawned and the game goes on, after an earlier rotation that was kicked
\* or an earlier move
C32_Witness ==
  /\ scene # <<>>
  /\ call.fn \in {"keydown", "fallTick"}
  /\ call.locked
  /\ scene.gameState.isPlaying
  /\ scene.currentPiece.blocks # <<>>
  /\ \E r \in 1..20 : scene.grid[r] # ZeroRow
  /\ steps >= 2
  /\ Fits(scene.grid, scene.currentPiece.blocks,
          scene.currentPiece.x, scene.currentPiece.y)

\* ------------------------------------------------------------------------
\* the last event was a move request that reached movePiece
MoveRequested ==
  /\ scene # <<>>
  /\ \/ /\ call.fn = "keydown"
        /\ call.key \in {"LEFT", "RIGHT", "DOWN", "SPACE"}
        /\ call.key \in call.before.keyboardCallbacks
        /\ ~call.before.isInputLocked
     \/ call.fn = "fallTick"
  /\ call.before.gameState.isPlaying
  /\ call.before.currentPiece.blocks # <<>>

\* the column and row steps of the request
MoveDx == IF call.fn = "keydown" /\ call.key = "LEFT" THEN -1
          ELSE IF call.fn = "keydown" /\ call.key = "RIGHT" THEN 1 ELSE 0

MoveDy == IF call.fn = "keydown" /\ call.key \in {"LEFT", "RIGHT"} THEN 0 ELSE 1

\* the grid g with the occupied cells of s written at offset (x, y)
Stamped(g, s, x, y) ==
  [r \in 1..Len(g) |-> [c \in 1..Len(g[r]) |->
     IF <<r - 1, c - 1>> \in Covered(s, x, y)
       THEN s[r - y][c - x] ELSE g[r][c]]]

\* C33: a move request of the host whose target is valid only changes the
\* position to the target; one whose target is invalid never moves or turns
\* the piece: sideways it changes nothing at all, downward it locks the
\* piece into the grid where it is.
C33_MoveRequest ==
  MoveRequested =>
    LET b == call.before
        p == b.currentPiece
    IN  IF Fits(b.grid, p.blocks, p.x + MoveDx, p.y + MoveDy)
          THEN /\ scene = [b EXCEPT !.currentPiece.x = p.x + MoveDx,
                                    !.currentPiece.y = p.y + MoveDy]
               /\ ~call.locked
        ELSE IF MoveDy = 0
          THEN /\ scene = b
               /\ ~call.locked
        ELSE /\ call.locked
             /\ call.merged = Stamped(b.grid, p.blocks, p.x, p.y)

\* ------------------------------------------------------------------------
\* C34: while isPlaying is false (paused, stopped or game over) a key event
\* or a tick of the fall timer changes neither the grid nor the shape or
\* position of the current piece; the fall timer does not tick then.
C34_NothingMovesWhileNotPlaying ==
  scene # <<>> =>
    /\ (call.fn \in {"keydown", "fallTick"} /\ ~call.before.gameState.isPlaying) =>
         /\ scene.grid = call.before.grid
         /\ scene.currentPiece = call.before.currentPiece
    /\ ~scene.gameState.isPlaying =>
         ~(scene.fallTimer.active /\ ~scene.fallTimer.paused)

\* a LEFT key while the game is paused, its callbacks bound and the input
\* unlocked, for a piece that has room on its left
C34_Witness ==
  /\ scene # <<>>
  /\ call.fn = "keydown"
  /\ call.key = "LEFT"
  /\ call.before.ui = "Paused"
  /\ ~call.before.gameState.isPlaying
  /\ call.key \in call.before.keyboardCallbacks
  /\ ~call.before.isInputLocked
  /\ call.before.currentPiece.blocks # <<>>
  /\ Fits(call.before.grid, call.before.currentPiece.blocks,
          call.before.currentPiece.x - 1, call.before.currentPiece.y)
  /\ scene.currentPiece = call.before.currentPiece

\* ------------------------------------------------------------------------
\* s after k clockwise quarter turns, cell by cell
RECURSIVE TurnedTimes(_, _)
TurnedTimes(s, k) ==
  IF k = 0 THEN s ELSE TurnedTimes(Turned(s, "clockwise"), k - 1)

\* C35: a caller that starts from a catalog shape in rotation state 0 and
\* adopts the shape and newRotation of every attemptRotationSRS call, failed
\* or not and in either direction, always holds a rotation state in 0..3
\* and the catalog shape turned clockwise that many times.
C35_RotationStateTracksShape ==
  (orig # <<>> /\ call.fn \in {"new", "attemptRotationSRS"}) =>
    /\ call.ret.newRotation \in 0..3
    /\ shape = TurnedTimes(orig, call.ret.newRotation)
    /\ call.ret.rotated = shape

\* a call fails while the piece is in state 3 and not as the catalog has
\* it, after calls in both directions
C35_Witness ==
  /\ orig # <<>>
  /\ call.fn = "attemptRotationSRS"
  /\ ~call.ret.valid
  /\ call.ret.newRotation = 3
  /\ shape # orig
  /\ nCW >= 1
  /\ nCCW >= 1
  /\ steps = 0

\* ------------------------------------------------------------------------
\* what holds when hardDrop or calculateGhostPosition has returned: the row
\* y it stopped at is the largest y >= start such that every position
\* start+1..y is valid; hardDrop returns y - start and, from a valid start,
\* has written the piece's cells at row offset y; calculateGhostPosition
\* returns y and leaves the grid alone
DropReturned ==
  LET y == IF call.fn = "hardDrop" THEN call.offsetY ELSE call.ret
  IN  /\ y >= call.start
      /\ \A k \in (call.start + 1)..y :
           Fits(call.before, shape, call.offsetX, k)
      /\ ~Fits(call.before, shape, call.offsetX, y + 1)
      /\ call.fn = "hardDrop" =>
           /\ call.ret = y - call.start
           /\ Fits(call.before, shape, call.offsetX, call.start) =>
                grid = Stamped(call.before, shape, call.offsetX, y)
      /\ call.fn = "calculateGhostPosition" => grid = call.before

\* C36: for every board and every shape with an occupied cell, hardDrop and
\* calculateGhostPosition terminate, at the row and with the result and the
\* grid described above.
C36_DropTerminatesAtRestingRow ==
  /\ [](( /\ call.fn \in {"hardDrop", "calculateGhostPosition"}
          /\ call.pc = "done" ) => DropReturned)
  /\ <>(call.fn \in {"hardDrop", "calculateGhostPosition"} /\ call.pc = "done")

\* a hardDrop from a valid start that fell at least ten rows onto a board
\* with blocks and wrote the piece there
C36_Witness ==
  /\ call.fn = "hardDrop"
  /\ call.pc = "done"
  /\ call.ret >= 10
  /\ call.before # [r \in 1..20 |-> ZeroRow]
  /\ Fits(call.before, shape, call.offsetX, call.start)
  /\ grid = Stamped(call.before, shape, call.offsetX, call.offsetY)
  /\ grid # call.before

\* ------------------------------------------------------------------------
\* C37: after construction and after every getNextPiece, holdPiece (that
\* returned or threw) and reset call, getNextQueue of a manager built with
\* nextQueueSize >= 1 returns exactly nextQueueSize pieces.
C37_QueueKeepsItsSize ==
  (nextHold # <<>> /\ nextHold.config.nextQueueSize >= 1) =>
    /\ Len(getNextQueue(nextHold)) = nextHold.config.nextQueueSize
    /\ \A i \in 1..Len(getNextQueue(nextHold)) :
         getNextQueue(nextHold)[i] \in Kinds

\* a getNextPiece call that had to refill the bag, on a manager with a
\* queue of five, after a holdPiece call
C37_Witness ==
  /\ nextHold # <<>>
  /\ call.fn = "getNextPiece"
  /\ Len(call.before.pieceBag.bag) = 0
  /\ nextHold.config.nextQueueSize = 5
  /\ Len(getNextQueue(nextHold)) = 5
  /\ nextHold.heldPiece # "null"

\* ------------------------------------------------------------------------
\* C38: a holdPiece call that returns stores the current piece as the held
\* piece; with an empty slot it returns the head of the next queue and
\* advances the queue, with a held piece it returns that piece and leaves
\* the queue alone.  A holdPiece call that throws leaves the held piece and
\* the next queue alone.
C38_HoldStoresAndReturns ==
  (nextHold # <<>> /\ call.fn = "holdPiece") =>
    LET b == call.before
        n == Len(b.nextQueue)
    IN  IF call.threw
          THEN /\ getHeldPiece(nextHold) = b.heldPiece
               /\ getNextQueue(nextHold) = b.nextQueue
        ELSE IF b.heldPiece = "null"
          THEN /\ getHeldPiece(nextHold) = call.currentPiece
               /\ call.ret = b.nextQueue[1]
               /\ Len(getNextQueue(nextHold)) = n
               /\ \A i \in 1..(n - 1) :
                    getNextQueue(nextHold)[i] = b.nextQueue[i + 1]
          ELSE /\ call.ret = b.heldPiece
               /\ getHeldPiece(nextHold) = call.currentPiece
               /\ getNextQueue(nextHold) = b.nextQueue

\* a swap of the current piece with a different held piece, after a hold
\* into the empty slot
C38_Witness ==
  /\ nextHold # <<>>
  /\ call.fn = "holdPiece"
  /\ ~call.threw
  /\ call.before.heldPiece \notin {"null", call.currentPiece}
  /\ call.ret = call.before.heldPiece
  /\ getHeldPiece(nextHold) = call.currentPiece

\* ------------------------------------------------------------------------
\* the delay of the fall timer is the one of the current level
DelayOfLevel ==
  (scene # <<>> /\ scene.fallTimer.active) =>
    LET level == (scene.gameState.lines \div 10) + 1
        linear == 1000 - 100 * (level - 1)
    IN  /\ scene.gameState.level = level
        /\ scene.fallTimer.delay = (IF linear > 100 THEN linear ELSE 100)
        /\ scene.fallTimer.delay >= 100

\* no event makes the delay of an active fall timer longer
DelayNotLonger ==
  (scene # <<>> /\ scene.fallTimer.active /\ scene'.fallTimer.active) =>
    scene'.fallTimer.delay <= scene.fallTimer.delay

KickClasses == {<<"normal", "standard">>, <<"I", "I">>}

\* the transitions both tables define, as <<tetromino module, rotation
\* module>>: rotation states 1, 2, 3 are R, 2, L
SharedTransitions ==
  {<<"0->1", "0->R">>, <<"1->2", "R->2">>, <<"2->3", "2->L">>,
   <<"3->0", "L->0">>}

\* a list of {x, y} offsets as a list of (dx, dy) pairs
AsPairs(offsets) == [i \in 1..Len(offsets) |-> <<offsets[i].x, offsets[i].y>>]

\* the two tables have different candidate lists for this class and
\* transition
KickListsDiffer(c, t) ==
  AsPairs(Tetromino_SRS_WALL_KICK_DATA[c[1]][t[1]])
    # SRS_WALL_KICK_DATA[c[2]][t[2]]

\* C40 as stated: for some piece class and some transition that both kick
\* tables define, the ordered (dx, dy) candidate lists of the two tables
\* are not equal.
C40_AsStated ==
  /\ call.fn \in {"new", "attemptRotationSRS"}
  /\ \E c \in KickClasses, t \in SharedTransitions : KickListsDiffer(c, t)

\* where the candidates of list, tried in order, bring the piece the last
\* call turned clockwise, and whether any of them fits
KickedBy(list) ==
  LET s == Turned(call.before.rotated, "clockwise")
      fitting == {i \in 1..Len(list) :
                    Fits(grid, s, call.before.x + list[i][1],
                         call.before.y + list[i][2])}
      first == CHOOSE i \in fitting : \A k \in fitting : i <= k
  IN  IF fitting = {} THEN <<call.before.x, call.before.y, FALSE>>
      ELSE <<call.before.x + list[first][1], call.before.y + list[first][2],
             TRUE>>

\* C40, amended: the two kick tables have the same ordered candidate list
\* for every piece class and every transition both define (the four
\* clockwise ones); only the rotation module's table has the four
\* counter-clockwise transitions as well.  A clockwise attemptRotationSRS
\* call therefore ends where the tetromino module's list would bring it.
C40_KickTablesAgree ==
  /\ \A c \in KickClasses, t \in SharedTransitions : ~KickListsDiffer(c, t)
  /\ \A c \in KickClasses :
       /\ DOMAIN Tetromino_SRS_WALL_KICK_DATA[c[1]]
            = {t[1] : t \in SharedTransitions}
       /\ DOMAIN SRS_WALL_KICK_DATA[c[2]]
            = {t[2] : t \in SharedTransitions}
                \cup {"R->0", "2->R", "L->2", "0->L"}
  /\ (call.fn = "attemptRotationSRS" /\ call.direction = "clockwise") =>
       LET numKey == <<"0->1", "1->2", "2->3", "3->0">>[call.before.newRotation + 1]
           class == IF call.isIPiece THEN "I" ELSE "normal"
       IN  <<call.ret.x, call.ret.y, call.ret.valid>>
             = KickedBy(AsPairs(Tetromino_SRS_WALL_KICK_DATA[class][numKey]))

\* a clockwise attemptRotationSRS call of the I piece succeeded with a kick
\* other than (0, 0), which the tetromino module's table lists at the same
\* place for that transition
C40_Witness ==
  /\ orig = I_PIECE
  /\ call.fn = "attemptRotationSRS"
  /\ call.direction = "clockwise"
  /\ call.isIPiece
  /\ call.ret.valid
  /\ LET from == call.before.newRotation
         numKey == <<"0->1", "1->2", "2->3", "3->0">>[from + 1]
         key == transitionKey(from, call.ret.newRotation)
         kick == <<call.ret.x - call.before.x, call.ret.y - call.before.y>>
     IN  \E i \in 2..5 :
           /\ SRS_WALL_KICK_DATA.I[key][i] = kick
           /\ AsPairs(Tetromino_SRS_WALL_KICK_DATA.I[numKey])[i] = kick
           /\ \A j \in 1..(i - 1) : SRS_WALL_KICK_DATA.I[key][j] # kick

====
